---- MODULE Spec2Model ----
(***************************************************************************)
(* Picture Frame Controller: the SQLite store (database_manager.py), the   *)
(* media scanner (media_scanner.py) and the selection coordinator          *)
(* (__init__.py), as one state machine.                                    *)
(*                                                                         *)
(* Strings the code takes apart (paths, folder names, file names) are      *)
(* sequences of one-character strings; Python None and SQL NULL are Null.  *)
(***************************************************************************)
EXTENDS Integers, Sequences, FiniteSets, TLC

VARIABLES
    albums,            \* table albums: set of rows [id, path, name, year, month]
    media,             \* table media_files: set of rows
                       \*   [id, album_id, filename, extension, is_video, seen, last_shown]
    clock,             \* wall clock read by datetime.now() in mark_media_as_seen
    current_media_id,  \* PictureFrameCoordinator._current_media_id
    album_filter,      \* PictureFrameCoordinator._album_filter
    time_range,        \* PictureFrameCoordinator._time_range
    data,              \* PictureFrameCoordinator.data, what the last update published
    fs,                \* which of FileSystems is on disk
    last,              \* history: the operation that ran last and the calls it made
    shown,             \* history: ids returned by update ticks since a reset covered them
    marked,            \* history: ids marked seen since a reset covered them
    threads,           \* the executor jobs running MediaScanner.scan, each at a statement
    txn,               \* the connection's open transaction: <<the tables when it began>>
    conn,              \* DatabaseManager._conn: "open", or "closed" (None) after close()
    schema_version     \* table schema_version: the version of each row, ordered by id

vars == <<albums, media, clock, current_media_id, album_filter, time_range,
          data, fs, last, shown, marked, threads, txn, conn, schema_version>>

\* Python None / SQL NULL (ids, years, months and timestamps are never negative).
Null == -2

\* const.py: DB_VERSION, the schema version this release writes and expects.
DB_VERSION == 1

\* The largest timestamp the clock reaches; updates stop there.
MaxClock == 5

\* Direct calls of the store: the rows add_media_file may create, and the
\* number of mark_media_as_seen calls.
MaxMedia == 2
MaxMarks == 2
\* The number of years that album dates and date ranges are drawn from.
MaxYears == 3

(***************************************************************************)
(* Python truthiness and SQL three-valued logic                            *)
(***************************************************************************)

\* bool(x) for an Optional[int]: None and 0 are falsy.
Truthy(x) == x # Null /\ x # 0

\* all([start_year, start_month, end_year, end_month])
AllSet(r) == Truthy(r.start_year) /\ Truthy(r.start_month)
             /\ Truthy(r.end_year) /\ Truthy(r.end_month)

NoRange == [start_year |-> Null, start_month |-> Null,
            end_year |-> Null, end_month |-> Null]

Range(sy, sm, ey, em) == [start_year |-> sy, start_month |-> sm,
                          end_year |-> ey, end_month |-> em]

\* SQL comparisons: a comparison with NULL is unknown ("U").
SqlCmp(a, b, holds) == IF a = Null \/ b = Null THEN "U"
                       ELSE IF holds THEN "T" ELSE "F"
SqlGt(a, b) == SqlCmp(a, b, a > b)
SqlGe(a, b) == SqlCmp(a, b, a >= b)
SqlLt(a, b) == SqlCmp(a, b, a < b)
SqlLe(a, b) == SqlCmp(a, b, a <= b)
SqlEq(a, b) == SqlCmp(a, b, a = b)
SqlAnd(p, q) == IF p = "F" \/ q = "F" THEN "F"
                ELSE IF p = "T" /\ q = "T" THEN "T" ELSE "U"
SqlOr(p, q) == IF p = "T" \/ q = "T" THEN "T"
               ELSE IF p = "F" /\ q = "F" THEN "F" ELSE "U"

\* Mutant: month > ? at the start of the range.
TimeRangeWhere_ExclusiveStart(year, month, r) ==
    SqlAnd(SqlOr(SqlGt(year, r.start_year),
                 SqlAnd(SqlEq(year, r.start_year), SqlGt(month, r.start_month))),
           SqlOr(SqlLt(year, r.end_year),
                 SqlAnd(SqlEq(year, r.end_year), SqlLe(month, r.end_month)))) = "T"

\* Mutant: a row is kept unless the condition is false (NULL dates pass).
TimeRangeWhere_UnknownPasses(year, month, r) ==
    SqlAnd(SqlOr(SqlGt(year, r.start_year),
                 SqlAnd(SqlEq(year, r.start_year), SqlGe(month, r.start_month))),
           SqlOr(SqlLt(year, r.end_year),
                 SqlAnd(SqlEq(year, r.end_year), SqlLe(month, r.end_month)))) # "F"

\* (year > ? OR (year = ? AND month >= ?)) AND (year < ? OR (year = ? AND month <= ?))
\* a WHERE clause keeps a row only when the condition is true, not unknown.
TimeRangeWhere(year, month, r) ==
    SqlAnd(SqlOr(SqlGt(year, r.start_year),
                 SqlAnd(SqlEq(year, r.start_year), SqlGe(month, r.start_month))),
           SqlOr(SqlLt(year, r.end_year),
                 SqlAnd(SqlEq(year, r.end_year), SqlLe(month, r.end_month)))) = "T"

(***************************************************************************)
(* DatabaseManager                                                         *)
(***************************************************************************)

MaxOf(S) == CHOOSE x \in S : \A y \in S : y <= x

\* cursor.lastrowid of an INSERT into an INTEGER PRIMARY KEY table.
LastRowId(rows) == IF rows = {} THEN 1 ELSE MaxOf({r.id : r \in rows}) + 1

\* Mutant: INSERT OR REPLACE: an existing path gets a new row.
AddAlbumRows_Replace(albs, path, name, year, month) ==
    {a \in albs : a.path # path}
    \cup {[id |-> LastRowId(albs), path |-> path, name |-> name,
            year |-> year, month |-> month]}

\* add_album: the albums table after the call.
AddAlbumRows(albs, path, name, year, month) ==
    IF \E a \in albs : a.path = path
    THEN {IF a.path = path
          THEN [a EXCEPT !.name = name, !.year = year, !.month = month]
          ELSE a : a \in albs}
    ELSE albs \cup {[id |-> LastRowId(albs), path |-> path, name |-> name,
                     year |-> year, month |-> month]}

\* add_album: the id it returns.
AddAlbumId(albs, path) ==
    IF \E a \in albs : a.path = path
    THEN (CHOOSE a \in albs : a.path = path).id
    ELSE LastRowId(albs)

\* Mutant: INSERT OR REPLACE: an existing row gets the new metadata and is unseen.
AddMediaRows_Replace(med, album_id, filename, extension, is_video) ==
    {m \in med : ~(m.album_id = album_id /\ m.filename = filename)}
    \cup {[id |-> IF \E m \in med : m.album_id = album_id /\ m.filename = filename
                  THEN (CHOOSE m \in med : m.album_id = album_id
                                           /\ m.filename = filename).id
                  ELSE LastRowId(med),
            album_id |-> album_id, filename |-> filename,
            extension |-> extension, is_video |-> is_video,
            seen |-> FALSE, last_shown |-> Null]}

\* Mutant: INSERT without the lookup of (album_id, filename).
AddMediaRows_AlwaysInsert(med, album_id, filename, extension, is_video) ==
    med \cup {[id |-> LastRowId(med), album_id |-> album_id, filename |-> filename,
               extension |-> extension, is_video |-> is_video,
               seen |-> FALSE, last_shown |-> Null]}

\* add_media_file: the media_files table after the call.
AddMediaRows(med, album_id, filename, extension, is_video) ==
    IF \E m \in med : m.album_id = album_id /\ m.filename = filename
    THEN med
    ELSE med \cup {[id |-> LastRowId(med), album_id |-> album_id,
                    filename |-> filename, extension |-> extension,
                    is_video |-> is_video, seen |-> FALSE, last_shown |-> Null]}

\* add_media_file: the id it returns.
AddMediaId(med, album_id, filename) ==
    IF \E m \in med : m.album_id = album_id /\ m.filename = filename
    THEN (CHOOSE m \in med : m.album_id = album_id /\ m.filename = filename).id
    ELSE LastRowId(med)

\* get_media_count
GetMediaCount(med) == Cardinality(med)

\* get_unseen_count
GetUnseenCount(med, album_id) ==
    IF album_id # Null
    THEN Cardinality({m \in med : ~m.seen /\ m.album_id = album_id})
    ELSE Cardinality({m \in med : ~m.seen})

\* FROM media_files m JOIN albums a ON m.album_id = a.id: the album of a media
\* row; a row with no album is not in the join.
Joined(albs, m) == {a \in albs : a.id = m.album_id}

\* Mutant: the WHERE clause lacks m.seen = 0.
UnseenRows_AnyRow(albs, med, album_id, r) ==
    {m.id : m \in {x \in med :
        \E a \in Joined(albs, x) :
            /\ (album_id # Null => x.album_id = album_id)
            /\ (AllSet(r) => TimeRangeWhere(a.year, a.month, r))}}

\* get_random_unseen_media: the ids of the rows its WHERE clause keeps, one of
\* which ORDER BY RANDOM() LIMIT 1 returns.
UnseenRows(albs, med, album_id, r) ==
    {m.id : m \in {x \in med :
        \E a \in Joined(albs, x) :
            /\ ~x.seen
            /\ (album_id # Null => x.album_id = album_id)
            /\ (AllSet(r) => TimeRangeWhere(a.year, a.month, r))}}

\* get_random_unseen_media: every value it can return (Null for None).
GetRandomUnseenMedia(albs, med, album_id, r) ==
    IF UnseenRows(albs, med, album_id, r) = {} THEN {Null}
    ELSE UnseenRows(albs, med, album_id, r)

\* Mutant: the UPDATE sets seen and forgets last_shown.
MarkMediaAsSeen_SeenOnly(med, media_id, timestamp) ==
    {IF m.id = media_id THEN [m EXCEPT !.seen = TRUE] ELSE m : m \in med}

\* Mutant: the UPDATE without its WHERE clause.
MarkMediaAsSeen_AllRows(med, media_id, timestamp) ==
    {[m EXCEPT !.seen = TRUE, !.last_shown = timestamp] : m \in med}

\* mark_media_as_seen: UPDATE media_files SET seen = 1, last_shown = ? WHERE id = ?
MarkMediaAsSeen(med, media_id, timestamp) ==
    {IF m.id = media_id
     THEN [m EXCEPT !.seen = TRUE, !.last_shown = timestamp]
     ELSE m : m \in med}

\* get_previously_shown_media: the ids of the rows its WHERE clause keeps.
ShownRows(albs, med, current, album_id, r) ==
    {m.id : m \in {x \in med :
        \E a \in Joined(albs, x) :
            /\ x.last_shown # Null
            /\ (current # Null => x.id # current)
            /\ (album_id # Null => x.album_id = album_id)
            /\ (AllSet(r) => TimeRangeWhere(a.year, a.month, r))}}

\* Mutant: ORDER BY m.last_shown ASC.
GetPreviouslyShownMedia_Oldest(albs, med, current, album_id, r) ==
    LET rows == {m \in med : m.id \in ShownRows(albs, med, current, album_id, r)}
    IN  IF rows = {} THEN {Null}
        ELSE {m.id : m \in {x \in rows :
                  \A y \in rows : y.last_shown >= x.last_shown}}

\* get_previously_shown_media: every value ORDER BY m.last_shown DESC LIMIT 1
\* can return (Null for None); rows with equal last_shown come in any order.
GetPreviouslyShownMedia(albs, med, current, album_id, r) ==
    LET rows == {m \in med : m.id \in ShownRows(albs, med, current, album_id, r)}
    IN  IF rows = {} THEN {Null}
        ELSE {m.id : m \in {x \in rows :
                  \A y \in rows : y.last_shown <= x.last_shown}}

\* Mutant: every UPDATE lacks its WHERE clause.
ResetWhere_Everything(albs, med, album_id, time_range_flag, r) == med

\* reset_seen_status: the rows its UPDATE statement changes.
ResetWhere(albs, med, album_id, time_range_flag, r) ==
    IF album_id # Null
    THEN {m \in med : m.album_id = album_id}
    ELSE IF time_range_flag /\ AllSet(r)
    THEN {m \in med : m.album_id \in
              {a.id : a \in {b \in albs : TimeRangeWhere(b.year, b.month, r)}}}
    ELSE med

\* Mutant: the UPDATE sets seen = 0 and keeps last_shown.
ResetSeenStatus_KeepLastShown(albs, med, album_id, time_range_flag, r) ==
    {IF m \in ResetWhere(albs, med, album_id, time_range_flag, r)
     THEN [m EXCEPT !.seen = FALSE] ELSE m : m \in med}

\* reset_seen_status: the media_files table after the call.
ResetSeenStatus(albs, med, album_id, time_range_flag, r) ==
    {IF m \in ResetWhere(albs, med, album_id, time_range_flag, r)
     THEN [m EXCEPT !.seen = FALSE, !.last_shown = Null]
     ELSE m : m \in med}

\* get_albums: ORDER BY year, month, name puts NULL first; AlbumBefore(a, b)
\* says a sorts strictly before b by (year, month).
AlbumBefore(a, b) ==
    \/ (a.year = Null /\ b.year # Null)
    \/ (a.year # Null /\ b.year # Null /\ a.year < b.year)
    \/ (a.year = b.year /\ a.month = Null /\ b.month # Null)
    \/ (a.year = b.year /\ a.month # Null /\ b.month # Null /\ a.month < b.month)

(***************************************************************************)
(* PictureFrameCoordinator                                                 *)
(***************************************************************************)

QueryCall(album_id, r) ==
    [fn |-> "get_random_unseen_media", album_id |-> album_id, range |-> r]
ResetCall(album_id, r) ==
    [fn |-> "reset_seen_status", album_id |-> album_id, range |-> r]

\* Mutant: no second query after the reset.
GetNextMedia_NoRetry(albs, med, af, tr) ==
    LET first == GetRandomUnseenMedia(albs, med, af, tr)
    IN  IF first # {Null}
        THEN {[media |-> med, ret |-> id, calls |-> <<QueryCall(af, tr)>>]
                 : id \in first}
        ELSE {[media |-> ResetSeenStatus(albs, med, Null, FALSE, NoRange), ret |-> Null,
               calls |-> <<QueryCall(af, tr), ResetCall(Null, NoRange)>>]}

\* Mutant: the date range is looked at before the album filter.
GetNextMedia_RangeFirst(albs, med, af, tr) ==
    LET first == GetRandomUnseenMedia(albs, med, af, tr)
        byAlbum == ResetSeenStatus(albs, med, af, FALSE, NoRange)
        byRange == ResetSeenStatus(albs, med, Null, TRUE, tr)
        all == ResetSeenStatus(albs, med, Null, FALSE, NoRange)
    IN  IF first # {Null}
        THEN {[media |-> med, ret |-> id, calls |-> <<QueryCall(af, tr)>>]
                 : id \in first}
        ELSE IF AllSet(tr)
        THEN {[media |-> byRange, ret |-> id,
               calls |-> <<QueryCall(af, tr), ResetCall(Null, tr),
                           QueryCall(Null, tr)>>]
                 : id \in GetRandomUnseenMedia(albs, byRange, Null, tr)}
        ELSE IF af # Null
        THEN {[media |-> byAlbum, ret |-> id,
               calls |-> <<QueryCall(af, tr), ResetCall(af, NoRange),
                           QueryCall(af, NoRange)>>]
                 : id \in GetRandomUnseenMedia(albs, byAlbum, af, NoRange)}
        ELSE {[media |-> all, ret |-> id,
               calls |-> <<QueryCall(af, tr), ResetCall(Null, NoRange),
                           QueryCall(Null, NoRange)>>]
                 : id \in GetRandomUnseenMedia(albs, all, Null, NoRange)}

\* _get_next_media: every outcome it can have: the media_files table it leaves,
\* the id it returns (Null for None) and the store calls it made, in order.
GetNextMedia(albs, med, af, tr) ==
    LET first == GetRandomUnseenMedia(albs, med, af, tr)
        byAlbum == ResetSeenStatus(albs, med, af, FALSE, NoRange)
        byRange == ResetSeenStatus(albs, med, Null, TRUE, tr)
        all == ResetSeenStatus(albs, med, Null, FALSE, NoRange)
    IN  IF first # {Null}
        THEN {[media |-> med, ret |-> id, calls |-> <<QueryCall(af, tr)>>]
                 : id \in first}
        ELSE IF af # Null
        THEN {[media |-> byAlbum, ret |-> id,
               calls |-> <<QueryCall(af, tr), ResetCall(af, NoRange),
                           QueryCall(af, NoRange)>>]
                 : id \in GetRandomUnseenMedia(albs, byAlbum, af, NoRange)}
        ELSE IF AllSet(tr)
        THEN {[media |-> byRange, ret |-> id,
               calls |-> <<QueryCall(af, tr), ResetCall(Null, tr),
                           QueryCall(Null, tr)>>]
                 : id \in GetRandomUnseenMedia(albs, byRange, Null, tr)}
        ELSE {[media |-> all, ret |-> id,
               calls |-> <<QueryCall(af, tr), ResetCall(Null, NoRange),
                           QueryCall(Null, NoRange)>>]
                 : id \in GetRandomUnseenMedia(albs, all, Null, NoRange)}

\* The selected item is marked seen only "if it's new".
MarksSelected(selected, current) == selected # Null /\ selected # current

\* _async_update_data: every outcome of one update: the media_files table and
\* the coordinator fields it leaves, the data it publishes, the store calls of
\* _get_next_media.
UpdateData(albs, med, current, af, tr, clk) ==
    {[media |-> IF MarksSelected(o.ret, current)
                THEN MarkMediaAsSeen(o.media, o.ret, clk + 1) ELSE o.media,
      current |-> IF MarksSelected(o.ret, current) THEN o.ret ELSE current,
      clock |-> IF MarksSelected(o.ret, current) THEN clk + 1 ELSE clk,
      data |-> [selected_media |-> o.ret,
                count_total |-> GetMediaCount(med),
                count_unseen |-> GetUnseenCount(med, af)],
      calls |-> o.calls]
        : o \in GetNextMedia(albs, med, af, tr)}

(***************************************************************************)
(* MediaScanner                                                            *)
(***************************************************************************)

Digits == {"0", "1", "2", "3", "4", "5", "6", "7", "8", "9"}

\* int() of one decimal digit.
DigitVal(c) == CASE c = "0" -> 0 [] c = "1" -> 1 [] c = "2" -> 2 [] c = "3" -> 3
                 [] c = "4" -> 4 [] c = "5" -> 5 [] c = "6" -> 6 [] c = "7" -> 7
                 [] c = "8" -> 8 [] c = "9" -> 9

\* int() of a string of decimal digits.
RECURSIVE IntOf(_)
IntOf(s) == IF s = <<>> THEN 0
            ELSE 10 * IntOf(SubSeq(s, 1, Len(s) - 1)) + DigitVal(s[Len(s)])

\* str.lower() on the characters the model's file names use.
LowerChar(c) == CASE c = "P" -> "p" [] c = "N" -> "n" [] c = "G" -> "g"
                  [] c = "M" -> "m"
                  [] OTHER -> c
Lower(s) == [i \in 1..Len(s) |-> LowerChar(s[i])]

\* str.endswith
EndsWith(s, suffix) ==
    Len(s) >= Len(suffix)
    /\ SubSeq(s, Len(s) - Len(suffix) + 1, Len(s)) = suffix

PATH_CURRENT_LEVEL_ONLY == <<"*">>
PATH_RECURSIVE == <<"*", "*">>

\* The position of the last occurrence of character c in s, 0 when absent.
LastIndexOf(s, c) ==
    IF \E i \in 1..Len(s) : s[i] = c
    THEN MaxOf({i \in 1..Len(s) : s[i] = c}) ELSE 0

\* os.path.basename
Basename(path) == SubSeq(path, LastIndexOf(path, "/") + 1, Len(path))

\* os.path.join(a, b) for a relative b
PathJoin(a, b) == IF a = <<>> \/ a[Len(a)] = "/" THEN a \o b ELSE a \o <<"/">> \o b

\* os.path.splitext(name)[1]: from the last dot on, unless that dot is one of
\* the leading dots of the name.
SplitExt(name) ==
    LET dot == LastIndexOf(name, ".")
    IN  IF dot > 0 /\ \E i \in 1..(dot - 1) : name[i] # "."
        THEN SubSeq(name, dot, Len(name)) ELSE <<>>

\* ALBUM_PATTERN.match(folder_name): "." matches every character but a line
\* break, and "$" matches at the end and before a line break that ends the name.
AlbumPatternMatches(folder_name) ==
    /\ Len(folder_name) >= 8
    /\ \A i \in {1, 2, 3, 4, 6, 7} : folder_name[i] \in Digits
    /\ folder_name[5] \in {"-", "_"}
    /\ folder_name[8] \in {"-", "_"}
    /\ \A i \in 9..(Len(folder_name) - 1) : folder_name[i] # "\n"

\* match.group(3): what "(.*)" matched, the name from its ninth character on
\* without a line break that ends it.
AlbumPatternGroup3(folder_name) ==
    LET n == Len(folder_name)
    IN  IF n >= 9 /\ folder_name[n] = "\n" THEN SubSeq(folder_name, 9, n - 1)
        ELSE SubSeq(folder_name, 9, n)

\* _process_album_folder, lines 111-123: album name, year and month of a folder.
AlbumInfo(folder_path) ==
    LET folder_name == Basename(folder_path)
    IN  IF AlbumPatternMatches(folder_name)
        THEN [name |-> AlbumPatternGroup3(folder_name),
              year |-> IntOf(SubSeq(folder_name, 1, 4)),
              month |-> IntOf(SubSeq(folder_name, 6, 7))]
        ELSE [name |-> folder_name, year |-> Null, month |-> Null]

DEFAULT_IMAGE_EXTENSIONS ==
    {<<".", "j", "p", "g">>, <<".", "j", "p", "e", "g">>, <<".", "p", "n", "g">>,
     <<".", "g", "i", "f">>, <<".", "b", "m", "p">>, <<".", "w", "e", "b", "p">>}
DEFAULT_VIDEO_EXTENSIONS ==
    {<<".", "m", "p", "4">>, <<".", "m", "o", "v">>, <<".", "a", "v", "i">>,
     <<".", "m", "k", "v">>, <<".", "w", "e", "b", "m">>}

\* The configured exclude patterns, each a literal searched for in a directory
\* name, at its start when anchored ("^\." is [anchored |-> TRUE, text |-> "."]).
ExcludePatterns == {[anchored |-> TRUE, text |-> <<".">>]}

\* pattern.search(dir_name)
Search(pattern, dir_name) ==
    \E i \in 1..(Len(dir_name) - Len(pattern.text) + 1) :
        /\ pattern.anchored => i = 1
        /\ SubSeq(dir_name, i, i + Len(pattern.text) - 1) = pattern.text

\* _should_exclude
ShouldExclude(dir_name) == \E pattern \in ExcludePatterns : Search(pattern, dir_name)

\* A directory: its name, its subdirectories and its regular files, each in the
\* order os.walk / os.scandir lists them.
Dir(name, dirs, files) == [name |-> name, dirs |-> dirs, files |-> files]

\* os.scandir(path) with entry.is_dir() of every entry: the files of the
\* directory, then its subdirectories.
ListDir(dir) ==
    [i \in 1..Len(dir.files) |->
        [name |-> dir.files[i], isdir |-> FALSE, dir |-> Dir(dir.files[i], <<>>, <<>>)]]
    \o [i \in 1..Len(dir.dirs) |->
        [name |-> dir.dirs[i].name, isdir |-> TRUE, dir |-> dir.dirs[i]]]

\* _process_album_folder, lines 134-159, with the extension compared as it is
\* written in the file name.
MediaEntries_CaseSensitive(dir) ==
    LET Ext(f) == SplitExt(f)
        Accepted(item) == ~item.isdir
                          /\ (Ext(item.name) \in DEFAULT_IMAGE_EXTENSIONS
                              \/ Ext(item.name) \in DEFAULT_VIDEO_EXTENSIONS)
        kept == SelectSeq(ListDir(dir), Accepted)
    IN  [i \in 1..Len(kept) |->
            [filename |-> kept[i].name, extension |-> Ext(kept[i].name),
             is_video |-> Ext(kept[i].name) \notin DEFAULT_IMAGE_EXTENSIONS]]

\* _process_album_folder, lines 134-159: the entries of the folder it upserts,
\* in directory order, each with its lower-cased extension and is_video.
MediaEntries(dir) ==
    LET Ext(f) == Lower(SplitExt(f))
        Accepted(item) == ~item.isdir
                          /\ (Ext(item.name) \in DEFAULT_IMAGE_EXTENSIONS
                              \/ Ext(item.name) \in DEFAULT_VIDEO_EXTENSIONS)
        kept == SelectSeq(ListDir(dir), Accepted)
    IN  [i \in 1..Len(kept) |->
            [filename |-> kept[i].name, extension |-> Ext(kept[i].name),
             is_video |-> Ext(kept[i].name) \notin DEFAULT_IMAGE_EXTENSIONS]]

\* _scan_recursive with the leaf test made on the unfiltered directory list.
RECURSIVE ScanRecursive_UnfilteredLeafTest(_, _)
ScanRecursive_UnfilteredLeafTest(root, dir) ==
    LET NotExcluded(d) == ~ShouldExclude(d.name)
        dirs == SelectSeq(dir.dirs, NotExcluded)
        RECURSIVE Below(_)
        Below(i) == IF i > Len(dirs) THEN <<>>
                    ELSE ScanRecursive_UnfilteredLeafTest(
                             PathJoin(root, dirs[i].name), dirs[i]) \o Below(i + 1)
    IN  (IF dir.dirs = <<>> THEN <<[path |-> root, dir |-> dir]>> ELSE <<>>)
        \o Below(1)

\* _scan_recursive: the folders it hands to _process_album_folder, in os.walk's
\* top-down order, each with its path.
RECURSIVE ScanRecursive(_, _)
ScanRecursive(root, dir) ==
    LET NotExcluded(d) == ~ShouldExclude(d.name)
        dirs == SelectSeq(dir.dirs, NotExcluded)
        RECURSIVE Below(_)
        Below(i) == IF i > Len(dirs) THEN <<>>
                    ELSE ScanRecursive(PathJoin(root, dirs[i].name), dirs[i])
                         \o Below(i + 1)
    IN  (IF dirs = <<>> THEN <<[path |-> root, dir |-> dir]>> ELSE <<>>) \o Below(1)

\* _scan_current_level without the entry.is_dir() test.
ScanCurrentLevel_NoIsDir(base_path, dir) ==
    LET Album(item) == ~ShouldExclude(item.name)
        items == SelectSeq(ListDir(dir), Album)
    IN  [i \in 1..Len(items) |->
            [path |-> PathJoin(base_path, items[i].name), dir |-> items[i].dir]]

\* _scan_current_level: the folders it hands to _process_album_folder.
ScanCurrentLevel(base_path, dir) ==
    LET Album(item) == item.isdir /\ ~ShouldExclude(item.name)
        items == SelectSeq(ListDir(dir), Album)
    IN  [i \in 1..Len(items) |->
            [path |-> PathJoin(base_path, items[i].name), dir |-> items[i].dir]]

\* os.path.isdir(base_path) on a tree of root directories: the directory the
\* path names (a trailing "/" is ignored), none when there is no such directory.
RootsAt(tree, base_path) ==
    LET p == IF Len(base_path) > 1 /\ base_path[Len(base_path)] = "/"
             THEN SubSeq(base_path, 1, Len(base_path) - 1) ELSE base_path
    IN  {d \in tree : PathJoin(<<"/">>, d.name) = p}

\* scan with the suffix "*" tested before the suffix "**".
ScanPath_StarFirst(tree, path) ==
    LET recursive == ~EndsWith(path, PATH_CURRENT_LEVEL_ONLY)
        base_path == IF EndsWith(path, PATH_CURRENT_LEVEL_ONLY)
                     THEN SubSeq(path, 1, Len(path) - Len(PATH_CURRENT_LEVEL_ONLY))
                     ELSE IF EndsWith(path, PATH_RECURSIVE)
                     THEN SubSeq(path, 1, Len(path) - Len(PATH_RECURSIVE))
                     ELSE path
        roots == RootsAt(tree, base_path)
    IN  IF roots = {} THEN <<>>
        ELSE IF recursive
        THEN ScanRecursive(base_path, CHOOSE d \in roots : TRUE)
        ELSE ScanCurrentLevel(base_path, CHOOSE d \in roots : TRUE)

\* scan, lines 45-72: the album folders one configured path yields.
ScanPath(tree, path) ==
    LET recursive == EndsWith(path, PATH_RECURSIVE)
                     \/ ~EndsWith(path, PATH_CURRENT_LEVEL_ONLY)
        base_path == IF EndsWith(path, PATH_RECURSIVE)
                     THEN SubSeq(path, 1, Len(path) - Len(PATH_RECURSIVE))
                     ELSE IF EndsWith(path, PATH_CURRENT_LEVEL_ONLY)
                     THEN SubSeq(path, 1, Len(path) - Len(PATH_CURRENT_LEVEL_ONLY))
                     ELSE path
        roots == RootsAt(tree, base_path)
    IN  IF roots = {} THEN <<>>
        ELSE IF recursive
        THEN ScanRecursive(base_path, CHOOSE d \in roots : TRUE)
        ELSE ScanCurrentLevel(base_path, CHOOSE d \in roots : TRUE)

\* scan: the album folders of all configured paths, in order, each with what
\* _process_album_folder reads from the folder: its album info and media files.
RECURSIVE ScanFolders(_, _)
ScanFolders(tree, paths) ==
    IF paths = <<>> THEN <<>>
    ELSE LET found == ScanPath(tree, Head(paths))
         IN  [i \in 1..Len(found) |->
                 [path |-> found[i].path,
                  info |-> AlbumInfo(found[i].path),
                  entries |-> MediaEntries(found[i].dir)]]
             \o ScanFolders(tree, Tail(paths))

\* _process_album_folder, lines 125-166, on the store: add_album once, then
\* add_media_file for each media file of the folder.
RECURSIVE AddEntries(_, _, _)
AddEntries(med, album_id, entries) ==
    IF entries = <<>> THEN med
    ELSE AddEntries(AddMediaRows(med, album_id, Head(entries).filename,
                                 Head(entries).extension, Head(entries).is_video),
                    album_id, Tail(entries))

ProcessAlbumFolder(db, folder) ==
    [albums |-> AddAlbumRows(db.albums, folder.path, folder.info.name,
                             folder.info.year, folder.info.month),
     media |-> AddEntries(db.media, AddAlbumId(db.albums, folder.path),
                          folder.entries),
     \* scan counts a folder only "if album_info and media_files"
     album_count |-> db.album_count + (IF folder.entries # <<>> THEN 1 ELSE 0),
     media_count |-> db.media_count + Len(folder.entries)]

\* scan: the store and the counts after all the folders are processed.
RECURSIVE ScanStore(_, _)
ScanStore(db, folders) ==
    IF folders = <<>> THEN db
    ELSE ScanStore(ProcessAlbumFolder(db, Head(folders)), Tail(folders))

(***************************************************************************)
(* The configuration and the directory trees of the model                  *)
(***************************************************************************)

\* media_paths: "/m/**", "/p/*" and "/q" (which does not exist).
MediaPaths == << <<"/", "m", "/", "*", "*">>, <<"/", "p", "/", "*">>, <<"/", "q">> >>

F_a == <<"a", ".", "j", "p", "g">>
F_c == <<"c", ".", "m", "p", "4">>
F_d == <<"d", ".", "P", "N", "G">>
F_n == <<"n", ".", "t", "x", "t">>
D_v == <<"2", "0", "2", "0", "-", "0", "1", "-", "v">>
D_t == <<"2", "0", "2", "1", "_", "0", "6", "_", "t">>
D_x == <<".", "x">>
D_k == <<"k">>
D_fam == <<"f", "a", "m">>

\* The trees on disk, one after the other: files and folders get added.
\*   /m/2020-01-v/{a.jpg, n.txt}   /m/.x/a.jpg   /m/k/a.jpg   /m/k/k/
\*   /p/d.PNG   /p/fam/   /p/fam/k/a.jpg
\* and then also /m/2021_06_t/c.mp4 and /p/fam/d.PNG.
FileSystems ==
    << {Dir(<<"m">>, <<Dir(D_v, <<>>, <<F_a, F_n>>),
                       Dir(D_x, <<>>, <<F_a>>),
                       Dir(D_k, <<Dir(D_k, <<>>, <<>>)>>, <<F_a>>)>>, <<>>),
        Dir(<<"p">>, <<Dir(D_fam, <<Dir(D_k, <<>>, <<F_a>>)>>, <<>>)>>, <<F_d>>)},
       {Dir(<<"m">>, <<Dir(D_v, <<>>, <<F_a, F_n>>), Dir(D_t, <<>>, <<F_c>>),
                       Dir(D_x, <<>>, <<F_a>>),
                       Dir(D_k, <<Dir(D_k, <<>>, <<>>)>>, <<F_a>>)>>, <<>>),
        Dir(<<"p">>, <<Dir(D_fam, <<Dir(D_k, <<>>, <<F_a>>)>>, <<F_d>>)>>, <<F_d>>)} >>

\* What scan() finds in each tree (ScanFolders reads the disk only).
ScanPlan == [v \in DOMAIN FileSystems |-> ScanFolders(FileSystems[v], MediaPaths)]

\* The arguments the set_album_filter service is called with.
AlbumNames == {<<"v">>, D_fam, D_k, <<"z">>}

\* The arguments the set_time_range service is called with.
TimeRanges == {Range(2020, 1, 2021, 6), Range(2020, 6, 2021, 6),
               Range(2020, 1, Null, Null), Range(2020, 0, 2021, 6)}

(***************************************************************************)
(* History bookkeeping (not program state)                                 *)
(***************************************************************************)

\* (y1, m1) <= (y2, m2) in lexicographic order.
LexLe(y1, m1, y2, m2) == y1 < y2 \/ (y1 = y2 /\ m1 <= m2)

\* The album row of a media row.
AlbumOf(albs, m) == CHOOSE a \in albs : a.id = m.album_id

\* An album with a date inside the inclusive range r.
DatedWithin(a, r) ==
    /\ a.year # Null /\ a.month # Null
    /\ LexLe(r.start_year, r.start_month, a.year, a.month)
    /\ LexLe(a.year, a.month, r.end_year, r.end_month)

\* The ids of the media rows in the scope of a reset: one album, the albums
\* dated within a range, or everything.
ScopeIds(albs, med, album_id, r) ==
    IF album_id # Null THEN {m.id : m \in {x \in med : x.album_id = album_id}}
    ELSE IF r # NoRange
    THEN {m.id : m \in {x \in med : \E a \in albs :
                            a.id = x.album_id /\ DatedWithin(a, r)}}
    ELSE {m.id : m \in med}

\* The ids covered by the resets among a sequence of store calls.
Covered(albs, med, calls) ==
    UNION {ScopeIds(albs, med, calls[i].album_id, calls[i].range)
              : i \in {j \in DOMAIN calls : calls[j].fn = "reset_seen_status"}}

\* The history record of an operation: its name, the store calls it made, what
\* it returned (for a filter service: what its call data resolved to, then the
\* call data); `cycles`: how many update ticks in a row, this one included,
\* selected an item without a reset and marked it seen; `after`: for a tick that
\* had to reset, how many such ticks came right before it; `repeat`: a scan that
\* follows a scan of the same tree directly.
Op(op, calls, result) ==
    [op |-> op, calls |-> calls, result |-> result,
     cycles |-> 0, after |-> 0, repeat |-> FALSE]

(***************************************************************************)
(* Initial state and actions                                               *)
(***************************************************************************)

\* The executor jobs that can run a scan at the same time: the initial scan and
\* a scan_media service call.
Threads == {1, 2}

\* An executor job that runs no scan. A job that scans is at a statement (pc) of
\* add_album (entry = 0) or add_media_file (entry > 0) for a folder of the scan;
\* found is what its SELECT returned, album_id what add_album returned.
NotScanning == [pc |-> "idle", folder |-> 0, entry |-> 0, found |-> Null,
                album_id |-> Null, runs |-> 0, faults |-> 0]

\* async_setup_entry on a new installation: empty tables, a fresh coordinator.
Init ==
    /\ albums = {}
    /\ media = {}
    /\ clock = 0
    /\ current_media_id = Null
    /\ album_filter = Null
    /\ time_range = NoRange
    /\ data = [selected_media |-> Null, count_total |-> Null, count_unseen |-> Null]
    /\ fs = 1
    /\ last = Op("init", <<>>, <<>>)
    /\ shown = {}
    /\ marked = {}
    /\ threads = [t \in Threads |-> NotScanning]
    /\ txn = <<>>
    /\ conn = "open"
    /\ schema_version = <<DB_VERSION>>

\* coordinator.async_refresh(): one run of _async_update_data on the store
\* (albs, med) under the filters (af, tr). `before` are the store calls the
\* handler made before refreshing; `restart` says that the handler is a scan, a
\* filter change or an external reset.
Refresh(op, albs, med, af, tr, before, restart, result) ==
    /\ clock < MaxClock
    /\ \E o \in UpdateData(albs, med, current_media_id, af, tr, clock) :
        /\ media' = o.media
        /\ current_media_id' = o.current
        /\ clock' = o.clock
        /\ data' = o.data
        /\ last' = [Op(op, before \o o.calls, result) EXCEPT
                        !.cycles = IF op = "_async_update_data" /\ Len(o.calls) = 1
                                      /\ o.current # current_media_id
                                   THEN last.cycles + 1 ELSE 0,
                        !.after = IF op = "_async_update_data" /\ Len(o.calls) > 1
                                  THEN last.cycles ELSE 0,
                        !.repeat = (op = "handle_scan_media" /\ last.op = op)]
        /\ shown' = ((IF restart THEN {} ELSE shown \ Covered(albs, med, o.calls))
                     \cup {o.data.selected_media}) \ {Null}
        /\ marked' = (marked \ Covered(albs, med, before \o o.calls))
                     \cup (IF o.current # current_media_id THEN {o.current} ELSE {})

\* The periodic update, and handle_next_image.
Tick ==
    /\ Refresh("_async_update_data", albums, media, album_filter, time_range, <<>>, FALSE, <<>>)
    /\ UNCHANGED <<schema_version, conn, threads, txn, albums, album_filter, time_range, fs>>

\* Mutant: the item gone back to is marked seen again, with a new timestamp.
HandlePreviousImage_Marks ==
    /\ clock < MaxClock
    /\ \E prev \in IF Truthy(current_media_id)
                   THEN GetPreviouslyShownMedia(albums, media, current_media_id,
                                                album_filter, time_range)
                   ELSE {Null} :
        /\ current_media_id' = IF prev # Null THEN prev ELSE current_media_id
        /\ data' = IF prev # Null THEN [data EXCEPT !.selected_media = prev] ELSE data
        /\ media' = IF prev # Null THEN MarkMediaAsSeen(media, prev, clock + 1) ELSE media
        /\ clock' = IF prev # Null THEN clock + 1 ELSE clock
        /\ last' = Op("handle_previous_image", <<>>, <<prev>>)
    /\ UNCHANGED <<schema_version, conn, threads, txn, albums, album_filter, time_range, fs, shown, marked>>

\* handle_previous_image: show_previous_image.
HandlePreviousImage ==
    /\ \E prev \in IF Truthy(current_media_id)
                   THEN GetPreviouslyShownMedia(albums, media, current_media_id,
                                                album_filter, time_range)
                   ELSE {Null} :
        /\ current_media_id' = IF prev # Null THEN prev ELSE current_media_id
        /\ data' = IF prev # Null THEN [data EXCEPT !.selected_media = prev] ELSE data
        /\ last' = Op("handle_previous_image", <<>>, <<prev>>)
    /\ UNCHANGED <<schema_version, conn, threads, txn, albums, media, clock, album_filter, time_range, fs, shown, marked>>

\* Mutant: set_album_filter sets the filter and never resets.
HandleSetAlbumFilter_NoReset ==
    \E album_name \in AlbumNames :
        LET named == {a \in albums : a.name = album_name}
        IN  IF named = {}
            THEN /\ last' = Op("handle_set_album_filter", <<>>, <<Null, album_name>>)
                 /\ UNCHANGED <<schema_version, conn, threads, txn, albums, media, clock, current_media_id, album_filter,
                                time_range, data, fs, shown, marked>>
            ELSE \E a \in {x \in named : \A y \in named : ~AlbumBefore(y, x)} :
                    /\ album_filter' = a.id
                    /\ Refresh("handle_set_album_filter", albums, media, a.id,
                               time_range, <<>>, TRUE, <<a.id, album_name>>)
                    /\ UNCHANGED <<schema_version, conn, threads, txn, albums, time_range, fs>>

\* handle_set_album_filter: the first album of get_albums with that name, then
\* set_album_filter and a refresh; nothing when no album has the name.
HandleSetAlbumFilter ==
    \E album_name \in AlbumNames :
        LET named == {a \in albums : a.name = album_name}
        IN  IF named = {}
            THEN /\ last' = Op("handle_set_album_filter", <<>>, <<Null, album_name>>)
                 /\ UNCHANGED <<schema_version, conn, threads, txn, albums, media, clock, current_media_id, album_filter,
                                time_range, data, fs, shown, marked>>
            ELSE \E a \in {x \in named : \A y \in named : ~AlbumBefore(y, x)} :
                    LET exhausted == GetUnseenCount(media, a.id) = 0
                    IN  /\ album_filter' = a.id
                        /\ Refresh("handle_set_album_filter", albums,
                                   IF exhausted
                                   THEN ResetSeenStatus(albums, media, a.id, FALSE, NoRange)
                                   ELSE media,
                                   a.id, time_range,
                                   IF exhausted THEN <<ResetCall(a.id, NoRange)>>
                                   ELSE <<>>,
                                   TRUE, <<a.id, album_name>>)
                        /\ UNCHANGED <<schema_version, conn, threads, txn, albums, time_range, fs>>

\* handle_clear_album_filter
HandleClearAlbumFilter ==
    /\ album_filter' = Null
    /\ Refresh("handle_clear_album_filter", albums, media, Null, time_range, <<>>, TRUE, <<>>)
    /\ UNCHANGED <<schema_version, conn, threads, txn, albums, time_range, fs>>

\* Mutant: the range is set whatever the call data holds.
HandleSetTimeRange_Unchecked ==
    \E r \in TimeRanges :
        /\ time_range' = r
        /\ Refresh("handle_set_time_range", albums, media, album_filter, r, <<>>,
                   TRUE, <<TRUE, r>>)
        /\ UNCHANGED <<schema_version, conn, threads, txn, albums, album_filter, fs>>

\* handle_set_time_range: ignored unless all four values are truthy.
HandleSetTimeRange ==
    \E r \in TimeRanges :
        IF AllSet(r)
        THEN /\ time_range' = r
             /\ Refresh("handle_set_time_range", albums, media, album_filter, r, <<>>,
                        TRUE, <<TRUE, r>>)
             /\ UNCHANGED <<schema_version, conn, threads, txn, albums, album_filter, fs>>
        ELSE /\ last' = Op("handle_set_time_range", <<>>, <<FALSE, r>>)
             /\ UNCHANGED <<schema_version, conn, threads, txn, albums, media, clock, current_media_id, album_filter,
                            time_range, data, fs, shown, marked>>

\* handle_clear_time_range
HandleClearTimeRange ==
    /\ time_range' = NoRange
    /\ Refresh("handle_clear_time_range", albums, media, album_filter, NoRange, <<>>,
               TRUE, <<>>)
    /\ UNCHANGED <<schema_version, conn, threads, txn, albums, album_filter, fs>>

\* handle_reset_seen_status: reset_seen_status() and a refresh.
HandleResetSeenStatus ==
    /\ Refresh("handle_reset_seen_status", albums,
               ResetSeenStatus(albums, media, Null, FALSE, NoRange),
               album_filter, time_range, <<ResetCall(Null, NoRange)>>, TRUE, <<>>)
    /\ UNCHANGED <<schema_version, conn, threads, txn, albums, album_filter, time_range, fs>>

\* handle_scan_media and the initial scan: async_initial_scan, scan() and a refresh.
HandleScanMedia ==
    LET db == ScanStore([albums |-> albums, media |-> media,
                         album_count |-> 0, media_count |-> 0], ScanPlan[fs])
    IN  /\ albums' = db.albums
        /\ Refresh("handle_scan_media", db.albums, db.media, album_filter, time_range,
                   <<>>, TRUE, <<db.album_count, db.media_count>>)
        /\ UNCHANGED <<schema_version, conn, threads, txn, album_filter, time_range, fs>>

\* Files and folders are added to the media directories.
FilesAdded ==
    /\ fs < Len(FileSystems)
    /\ fs' = fs + 1
    /\ last' = Op("files_added", <<>>, <<>>)
    /\ UNCHANGED <<schema_version, conn, threads, txn, albums, media, clock, current_media_id, album_filter, time_range,
                   data, shown, marked>>

Next ==
    \/ Tick
    \/ HandlePreviousImage
    \/ HandleSetAlbumFilter
    \/ HandleClearAlbumFilter
    \/ HandleSetTimeRange
    \/ HandleClearTimeRange
    \/ HandleResetSeenStatus
    \/ HandleScanMedia
    \/ FilesAdded

Spec == Init /\ [][Next]_vars

(***************************************************************************)
(* The coordinator's filter methods by themselves: the state a service     *)
(* handler leaves between the method and its refresh                       *)
(***************************************************************************)

\* clear_album_filter
ClearAlbumFilter ==
    /\ album_filter' = Null
    /\ last' = Op("clear_album_filter", <<>>, <<>>)
    /\ UNCHANGED <<schema_version, conn, threads, txn, albums, media, clock, current_media_id, time_range,
                   data, fs, shown, marked>>

\* set_time_range, with the call data handle_set_time_range lets through.
SetTimeRange ==
    \E r \in {x \in TimeRanges : AllSet(x)} :
        /\ time_range' = r
        /\ last' = Op("set_time_range", <<>>, <<r>>)
        /\ UNCHANGED <<schema_version, conn, threads, txn, albums, media, clock, current_media_id,
                       album_filter, data, fs, shown, marked>>

\* Mutant: clear_time_range refreshes, as handle_clear_time_range does.
ClearTimeRange_Refreshes ==
    /\ time_range' = NoRange
    /\ Refresh("clear_time_range", albums, media, album_filter, NoRange, <<>>,
               TRUE, <<time_range>>)
    /\ UNCHANGED <<schema_version, conn, threads, txn, albums, album_filter, fs>>

\* clear_time_range (the record keeps the range it replaces).
ClearTimeRange ==
    /\ time_range' = NoRange
    /\ last' = Op("clear_time_range", <<>>, <<time_range>>)
    /\ UNCHANGED <<schema_version, conn, threads, txn, albums, media, clock, current_media_id,
                   album_filter, data, fs, shown, marked>>

FilterSpec ==
    Init /\ [][\/ Tick \/ HandleScanMedia \/ HandleSetAlbumFilter \/ FilesAdded
               \/ ClearAlbumFilter \/ SetTimeRange \/ ClearTimeRange]_vars

\* clear_database(): DELETE FROM media_files, DELETE FROM albums, commit; on
\* sqlite3.Error a rollback, which leaves both tables as they were. The
\* coordinator's fields are not touched.
ClearDatabase ==
    /\ \E ok \in BOOLEAN :
          /\ albums' = IF ok THEN {} ELSE albums
          /\ media' = IF ok THEN {} ELSE media
          /\ shown' = IF ok THEN {} ELSE shown
          /\ marked' = IF ok THEN {} ELSE marked
          /\ last' = Op("clear_database", <<>>, <<ok>>)
    /\ UNCHANGED <<schema_version, conn, threads, txn, clock, current_media_id,
                   album_filter, time_range, data, fs>>

\* Scans, ticks, filter changes, resets and clear_database, one at a time.
ClearSpec == Init /\ [][Next \/ ClearDatabase]_vars

(***************************************************************************)
(* The store's operations called directly, as its tests do                 *)
(***************************************************************************)

\* The arguments add_album is called with: what the scanner passes for the
\* folders of the last tree, and a changed name and date for a known path.
AlbumArgs ==
    {[path |-> ScanPlan[Len(FileSystems)][i].path,
      name |-> ScanPlan[Len(FileSystems)][i].info.name,
      year |-> ScanPlan[Len(FileSystems)][i].info.year,
      month |-> ScanPlan[Len(FileSystems)][i].info.month]
        : i \in {1, Len(ScanPlan[Len(FileSystems)])}}
    \cup {[path |-> PathJoin(<<"/", "m">>, D_v), name |-> <<"w">>,
           year |-> 2021, month |-> 12]}

\* The arguments add_media_file is called with, besides the album id.
FileArgs == {[filename |-> F_a, extension |-> <<".", "j", "p", "g">>, is_video |-> FALSE],
             [filename |-> F_c, extension |-> <<".", "M", "P", "4">>, is_video |-> TRUE]}

\* The date ranges get_random_unseen_media is called with.
QueryRanges == {NoRange, Range(2020, 1, 2021, 6), Range(2021, 1, Null, Null)}

\* Ids that calls are made with: those of the rows, and one of no row.
IdArgs(rows) == {r.id : r \in rows} \cup {LastRowId(rows)}

\* The scopes reset_seen_status is called with: reset_seen_status(),
\* reset_seen_status(album_id=a), reset_seen_status(time_range=True, ...).
ScopeArgs == {[album_id |-> Null, time_range |-> FALSE, range |-> NoRange]}
             \cup {[album_id |-> a, time_range |-> FALSE, range |-> NoRange]
                      : a \in IdArgs(albums)}
             \cup {[album_id |-> Null, time_range |-> TRUE, range |-> r]
                      : r \in {x \in TimeRanges : AllSet(x)}}

AddAlbum ==
    \E x \in AlbumArgs :
        /\ albums' = AddAlbumRows(albums, x.path, x.name, x.year, x.month)
        /\ last' = [Op("add_album",
                        <<[fn |-> "add_album", path |-> x.path, name |-> x.name,
                           year |-> x.year, month |-> x.month]>>,
                        <<AddAlbumId(albums, x.path)>>)
                        EXCEPT !.repeat = \E a \in albums : a.path = x.path]
        /\ UNCHANGED <<schema_version, conn, threads, txn, media, clock, current_media_id, album_filter, time_range,
                       data, fs, shown, marked>>

AddMediaFile ==
    \* a file that is in the store may be added again as another kind of file
    \E a \in albums, x \in FileArgs, y \in FileArgs :
        LET known == \E m \in media : m.album_id = a.id /\ m.filename = x.filename
        IN  /\ Cardinality(media) < MaxMedia
            /\ y = x \/ known
            /\ media' = AddMediaRows(media, a.id, x.filename, Lower(y.extension),
                                     y.is_video)
            /\ last' = [Op("add_media_file",
                            <<[fn |-> "add_media_file", album_id |-> a.id,
                               filename |-> x.filename, extension |-> y.extension,
                               is_video |-> y.is_video]>>,
                            <<AddMediaId(media, a.id, x.filename)>>)
                            EXCEPT !.repeat = known]
            /\ UNCHANGED <<schema_version, conn, threads, txn, albums, clock, current_media_id, album_filter,
                           time_range, data, fs, shown, marked>>

GetRandomUnseen ==
    \E a \in IdArgs(albums) \cup {Null}, r \in QueryRanges :
        \E ret \in GetRandomUnseenMedia(albums, media, a, r) :
            /\ last' = Op("get_random_unseen_media", <<QueryCall(a, r)>>, <<ret>>)
            /\ UNCHANGED <<schema_version, conn, threads, txn, albums, media, clock, current_media_id, album_filter,
                           time_range, data, fs, shown, marked>>

MarkSeen ==
    \E id \in IdArgs(media) :
        /\ clock < MaxMarks
        /\ clock' = clock + 1
        /\ media' = MarkMediaAsSeen(media, id, clock + 1)
        /\ marked' = marked \cup ({id} \cap {m.id : m \in media})
        /\ last' = Op("mark_media_as_seen", <<>>, <<id>>)
        /\ UNCHANGED <<schema_version, conn, threads, txn, albums, current_media_id, album_filter, time_range, data,
                       fs, shown>>

ResetSeen ==
    \E x \in ScopeArgs :
        /\ media' = ResetSeenStatus(albums, media, x.album_id, x.time_range, x.range)
        /\ marked' = marked \ ScopeIds(albums, media, x.album_id, x.range)
        /\ last' = Op("reset_seen_status", <<ResetCall(x.album_id, x.range)>>, <<>>)
        /\ UNCHANGED <<schema_version, conn, threads, txn, albums, clock, current_media_id, album_filter, time_range,
                       data, fs, shown>>

StoreNext ==
    \/ AddAlbum
    \/ AddMediaFile
    \/ GetRandomUnseen
    \/ MarkSeen
    \/ ResetSeen

StoreSpec == Init /\ [][StoreNext]_vars

(***************************************************************************)
(* The date-range filter of the store's three filtered operations, applied *)
(* to one album and one date range                                         *)
(***************************************************************************)

\* The years and months of album dates and of date ranges.
Years == {2020 + i : i \in 0..(MaxYears - 1)}
Months == {1, 6, 7, 12}

\* The store of test_time_range_filter for one album: the album, dated or not,
\* with an unseen file and a file that was marked seen; and one date range.
RangeInit ==
    \E year \in Years \cup {Null}, sy \in Years, ey \in Years :
    \E month \in IF year = Null THEN {Null} ELSE Months, sm \in Months, em \in Months :
        LET path == PathJoin(<<"/", "m">>, D_v)
            albs == AddAlbumRows({}, path, <<"v">>, year, month)
            id == AddAlbumId({}, path)
            one == AddMediaRows({}, id, F_a, <<".", "j", "p", "g">>, FALSE)
            two == AddMediaRows(one, id, F_c, <<".", "m", "p", "4">>, TRUE)
        IN  /\ albums = albs
            /\ media = MarkMediaAsSeen(two, AddMediaId(one, id, F_c), 1)
            /\ clock = 1
            /\ current_media_id = Null
            /\ album_filter = Null
            /\ time_range = Range(sy, sm, ey, em)
            /\ data = [selected_media |-> Null, count_total |-> Null,
                       count_unseen |-> Null]
            /\ fs = 1
            /\ last = Op("init", <<>>, <<>>)
            /\ shown = {}
            /\ marked = {AddMediaId(one, id, F_c)}
            /\ threads = [t \in Threads |-> NotScanning]
            /\ txn = <<>>
            /\ conn = "open"
            /\ schema_version = <<DB_VERSION>>

\* get_random_unseen_media(start_year=..., ...)
RangeUnseen ==
    \E ret \in GetRandomUnseenMedia(albums, media, Null, time_range) :
        /\ last' = Op("get_random_unseen_media", <<QueryCall(Null, time_range)>>, <<ret>>)
        /\ UNCHANGED <<schema_version, conn, threads, txn, albums, media, clock, current_media_id, album_filter,
                       time_range, data, fs, shown, marked>>

\* get_previously_shown_media(start_year=..., ...)
RangePrevious ==
    \E ret \in GetPreviouslyShownMedia(albums, media, Null, Null, time_range) :
        /\ last' = Op("get_previously_shown_media", <<>>, <<ret>>)
        /\ UNCHANGED <<schema_version, conn, threads, txn, albums, media, clock, current_media_id, album_filter,
                       time_range, data, fs, shown, marked>>

\* reset_seen_status(time_range=True, start_year=..., ...)
RangeReset ==
    /\ media' = ResetSeenStatus(albums, media, Null, TRUE, time_range)
    /\ marked' = marked \ ScopeIds(albums, media, Null, time_range)
    /\ last' = Op("reset_seen_status", <<ResetCall(Null, time_range)>>, <<>>)
    /\ UNCHANGED <<schema_version, conn, threads, txn, albums, clock, current_media_id, album_filter, time_range,
                   data, fs, shown>>

RangeNext ==
    \/ RangeUnseen
    \/ RangePrevious
    \/ RangeReset

RangeSpec == RangeInit /\ [][RangeNext]_vars

(***************************************************************************)
(* get_previously_shown_media applied to stores of shown and unseen rows   *)
(***************************************************************************)

\* The number of media rows, and of timestamps, the stores are drawn from.
MaxRows == 2

\* The file names of the rows.
RowFiles == <<F_a, F_c, F_d>>

\* The store of test_get_previously_shown_media: an album of January 2020, one
\* of June 2021 and one without a date; media rows, each in one of the albums,
\* unseen or shown at some time (two rows may have been shown at the same time).
PreviousInit ==
    LET one == AddAlbumRows({}, PathJoin(<<"/", "m">>, D_v), <<"v">>, 2020, 1)
        two == AddAlbumRows(one, PathJoin(<<"/", "m">>, D_t), <<"t">>, 2021, 6)
        albs == AddAlbumRows(two, PathJoin(<<"/", "p">>, D_fam), D_fam, Null, Null)
    IN  \E n \in 1..MaxRows :
        \E alb \in [1..n -> {a.id : a \in albs}],
           stamp \in [1..n -> {Null} \cup (1..MaxRows)] :
            /\ albums = albs
            /\ media = {[id |-> i, album_id |-> alb[i],
                         filename |-> RowFiles[((i - 1) % Len(RowFiles)) + 1],
                         extension |-> Lower(SplitExt(RowFiles[((i - 1) % Len(RowFiles)) + 1])),
                         is_video |-> FALSE,
                         seen |-> stamp[i] # Null, last_shown |-> stamp[i]]
                            : i \in 1..n}
            /\ clock = MaxRows
            /\ current_media_id = Null
            /\ album_filter = Null
            /\ time_range = NoRange
            /\ data = [selected_media |-> Null, count_total |-> Null,
                       count_unseen |-> Null]
            /\ fs = 1
            /\ last = Op("init", <<>>, <<>>)
            /\ shown = {}
            /\ marked = {}
            /\ threads = [t \in Threads |-> NotScanning]
            /\ txn = <<>>
            /\ conn = "open"
            /\ schema_version = <<DB_VERSION>>

\* get_previously_shown_media(current_media_id, album_id, start_year, ...)
GetPreviouslyShown ==
    \E current \in {m.id : m \in media} \cup {Null},
       a \in {x.id : x \in albums} \cup {Null},
       r \in {NoRange, Range(2020, 6, 2021, 6)} :
        \E ret \in GetPreviouslyShownMedia(albums, media, current, a, r) :
            /\ last' = Op("get_previously_shown_media",
                          <<[fn |-> "get_previously_shown_media", current |-> current,
                             album_id |-> a, range |-> r]>>, <<ret>>)
            /\ UNCHANGED <<schema_version, conn, threads, txn, albums, media, clock, current_media_id,
                           album_filter, time_range, data, fs, shown, marked>>

PreviousNext == GetPreviouslyShown

PreviousSpec == PreviousInit /\ [][PreviousNext]_vars

(***************************************************************************)
(* The scanner's walks applied to directory trees                          *)
(***************************************************************************)

\* How many different names the directories of a tree can have.
MaxNames == 3

\* The directory trees: a base directory /m holding a media file, under it any
\* of the names as a directory with a media file, under each of these any of the
\* names as a directory with a media file and no subdirectory.
WalkTrees ==
    LET N == 1..MaxNames
        \* the names: plain, excluded, dated
        DirNames == <<D_k, D_x, D_v, D_t>>
        NoDir == Dir(<<>>, <<>>, <<>>)
        Present(ds) == SelectSeq(ds, LAMBDA d : d.name # <<>>)
        Sub(S) == Present([j \in N |-> IF j \in S
                                        THEN Dir(DirNames[j], <<>>, <<F_a>>)
                                        ELSE NoDir])
        Choices == {<<>>} \cup {<<S>> : S \in SUBSET N}
    IN  {Dir(<<"m">>,
             Present([i \in N |-> IF c[i] = <<>> THEN NoDir
                                   ELSE Dir(DirNames[i], Sub(c[i][1]), <<F_a>>)]),
             <<F_a>>) : c \in [N -> Choices]}

\* The configured paths scan() is given for a tree: each suffix and none, on a
\* directory that exists and on one that does not.
WalkPaths == {<<"/", "m", "/", "*", "*">>, <<"/", "m", "/", "*">>, <<"/", "m">>,
              <<"/", "m", "/">>, <<"/", "q", "/", "*", "*">>, <<"/", "q", "/", "*">>}

\* The tree a walk is applied to.
WalkTree == last.calls[1].tree

\* A tree is on disk; nothing else has happened.
WalkInit ==
    \E tree \in WalkTrees :
        /\ albums = {}
        /\ media = {}
        /\ clock = 0
        /\ current_media_id = Null
        /\ album_filter = Null
        /\ time_range = NoRange
        /\ data = [selected_media |-> Null, count_total |-> Null, count_unseen |-> Null]
        /\ fs = 1
        /\ last = Op("init", <<[fn |-> "tree", tree |-> tree]>>, <<>>)
        /\ shown = {}
        /\ marked = {}
        /\ threads = [t \in Threads |-> NotScanning]
        /\ txn = <<>>
        /\ conn = "open"
        /\ schema_version = <<DB_VERSION>>

\* _scan_recursive(base_path): the folders it processes.
WalkRecursive ==
    /\ last' = Op("_scan_recursive", <<[fn |-> "tree", tree |-> WalkTree]>>,
                  ScanRecursive(<<"/", "m">>, WalkTree))
    /\ UNCHANGED <<schema_version, conn, albums, media, clock, current_media_id, album_filter, time_range,
                   data, fs, shown, marked, threads, txn>>

\* _scan_current_level(base_path): the folders it processes.
WalkCurrentLevel ==
    /\ last' = Op("_scan_current_level", <<[fn |-> "tree", tree |-> WalkTree]>>,
                  ScanCurrentLevel(<<"/", "m">>, WalkTree))
    /\ UNCHANGED <<schema_version, conn, albums, media, clock, current_media_id, album_filter, time_range,
                   data, fs, shown, marked, threads, txn>>

\* scan(), lines 45-72, for one configured path: the folders it processes.
WalkPath ==
    \E path \in WalkPaths :
        /\ last' = Op("scan", <<[fn |-> "tree", tree |-> WalkTree],
                                [fn |-> "path", path |-> path]>>,
                      ScanPath({WalkTree}, path))
        /\ UNCHANGED <<schema_version, conn, albums, media, clock, current_media_id, album_filter,
                       time_range, data, fs, shown, marked, threads, txn>>

WalkNext ==
    \/ WalkRecursive
    \/ WalkCurrentLevel
    \/ WalkPath

WalkSpec == WalkInit /\ [][WalkNext]_vars

(***************************************************************************)
(* The album metadata of folder names                                      *)
(***************************************************************************)

\* The longest remainder of a folder name.
MaxRest == 2

\* The folder names: those of the scanner's tests, and every composition of
\* what a name can have where the year, the separators and the month are
\* expected with a remainder of the characters "x", "-" and line break.
FolderNames ==
    LET NameYears == {<<"2", "0", "2", "0">>, <<"1", "9", "9", "9">>, <<"2", "0">>,
                      <<"2", "0", "2">>, <<"2", "0", "2", "0", "1">>,
                      <<"2", "0", "x", "0">>, <<>>}
        NameSeps == {<<"-">>, <<"_">>, <<".">>, <<"-", "-">>, <<>>}
        NameMonths == {<<"0", "1">>, <<"1", "2">>, <<"1", "3">>, <<"0", "0">>, <<"1">>,
                       <<"0", "1", "1">>, <<"0", "x">>}
        RestChars == {"x", "-", "\n"}
        TestNames ==
            {<<"2", "0", "2", "0", "-", "0", "1", "-", "v", "a", "c", "a", "t", "i", "o", "n">>,
             <<"2", "0", "2", "1", "_", "0", "6", "_", "b", "i", "r", "t", "h", "d", "a", "y">>,
             <<"2", "0", "2", "0", "-", "v", "a", "c", "a", "t", "i", "o", "n">>,
             <<"2", "0", "-", "0", "1", "-", "v", "a", "c", "a", "t", "i", "o", "n">>,
             <<"2", "0", "2", "0", "-", "1", "-", "v", "a", "c", "a", "t", "i", "o", "n">>,
             <<"v", "a", "c", "a", "t", "i", "o", "n", "-", "p", "h", "o", "t", "o", "s">>,
             <<"f", "a", "m", "i", "l", "y", "_", "p", "h", "o", "t", "o", "s">>}
    IN  TestNames
        \cup {y \o s1 \o m \o s2 \o rest :
                y \in NameYears, s1 \in NameSeps, m \in NameMonths, s2 \in NameSeps,
                rest \in UNION {[1..n -> RestChars] : n \in 0..MaxRest}}

\* The folder name whose metadata is read.
FolderName == last.calls[1].folder_name

\* A folder of some name is on disk; nothing else has happened.
NameInit ==
    \E folder_name \in FolderNames :
        /\ albums = {}
        /\ media = {}
        /\ clock = 0
        /\ current_media_id = Null
        /\ album_filter = Null
        /\ time_range = NoRange
        /\ data = [selected_media |-> Null, count_total |-> Null, count_unseen |-> Null]
        /\ fs = 1
        /\ last = Op("init", <<[fn |-> "name", folder_name |-> folder_name]>>, <<>>)
        /\ shown = {}
        /\ marked = {}
        /\ threads = [t \in Threads |-> NotScanning]
        /\ txn = <<>>
        /\ conn = "open"
        /\ schema_version = <<DB_VERSION>>

\* _process_album_folder, lines 111-126, on the folder /m/<name>: the metadata
\* read from the name, and add_album with it.
ReadAlbumInfo ==
    LET path == PathJoin(<<"/", "m">>, FolderName)
        info == AlbumInfo(path)
    IN  /\ last.op = "init"
        /\ albums' = AddAlbumRows(albums, path, info.name, info.year, info.month)
        /\ last' = Op("_process_album_folder",
                      <<[fn |-> "name", folder_name |-> FolderName]>>, <<info>>)
        /\ UNCHANGED <<schema_version, conn, media, clock, current_media_id, album_filter, time_range,
                       data, fs, shown, marked, threads, txn>>

NameNext == ReadAlbumInfo

NameSpec == NameInit /\ [][NameNext]_vars

(***************************************************************************)
(* One album folder processed                                              *)
(***************************************************************************)

\* How many of the file names an album folder can hold.
MaxFolderFiles == 6

\* The file names of an album folder: a.jpg, d.PNG, c.mp4, n.txt, .jpg (a
\* hidden file without extension), v.Mp4 and e.
FolderFiles == <<F_a, F_d, F_c, F_n, <<".", "j", "p", "g">>,
                 <<"v", ".", "M", "p", "4">>, <<"e">> >>

\* The subdirectories of an album folder: none, or s.jpg/ holding b.jpg.
FolderDirs == {<<>>, <<Dir(<<"s", ".", "j", "p", "g">>, <<>>,
                           <<<<"b", ".", "j", "p", "g">>>>)>>}

\* The album folders: /m/2020-01-v with any of the files and subdirectories.
AlbumFolders ==
    {Dir(D_v, dirs, SelectSeq([i \in 1..MaxFolderFiles |->
                                  IF i \in S THEN FolderFiles[i] ELSE <<>>],
                              LAMBDA f : f # <<>>))
        : S \in SUBSET (1..MaxFolderFiles), dirs \in FolderDirs}

\* The album folder that is processed.
AlbumFolder == last.calls[1].dir

\* The store before the folder is processed: empty, or with the folder's album
\* under another name and its a.jpg shown, and another album with an a.jpg.
FolderStores ==
    LET a1 == AddAlbumRows({}, PathJoin(<<"/", "m">>, D_v), <<"o", "l", "d">>, Null, Null)
        a2 == AddAlbumRows(a1, PathJoin(<<"/", "p">>, D_fam), D_fam, Null, Null)
        m1 == AddMediaRows({}, 1, F_a, <<".", "j", "p", "g">>, FALSE)
        m2 == AddMediaRows(MarkMediaAsSeen(m1, 1, 1), 2, F_a, <<".", "j", "p", "g">>, FALSE)
    IN  {[albums |-> {}, media |-> {}], [albums |-> a2, media |-> m2]}

FolderInit ==
    \E dir \in AlbumFolders, db \in FolderStores :
        /\ albums = db.albums
        /\ media = db.media
        /\ clock = 1
        /\ current_media_id = Null
        /\ album_filter = Null
        /\ time_range = NoRange
        /\ data = [selected_media |-> Null, count_total |-> Null, count_unseen |-> Null]
        /\ fs = 1
        /\ last = Op("init", <<[fn |-> "folder", dir |-> dir]>>, <<>>)
        /\ shown = {}
        /\ marked = {}
        /\ threads = [t \in Threads |-> NotScanning]
        /\ txn = <<>>
        /\ conn = "open"
        /\ schema_version = <<DB_VERSION>>

\* _process_album_folder(folder_path) on the folder /m/<name>.
ProcessFolder ==
    LET path == PathJoin(<<"/", "m">>, AlbumFolder.name)
        db == ProcessAlbumFolder(
                  [albums |-> albums, media |-> media, album_count |-> 0,
                   media_count |-> 0],
                  [path |-> path, info |-> AlbumInfo(path),
                   entries |-> MediaEntries(AlbumFolder)])
    IN  /\ albums' = db.albums
        /\ media' = db.media
        /\ last' = Op("_process_album_folder", <<[fn |-> "folder", dir |-> AlbumFolder]>>,
                      <<AddAlbumId(albums, path), db.media_count>>)
        /\ UNCHANGED <<schema_version, conn, clock, current_media_id, album_filter, time_range, data, fs,
                       shown, marked, threads, txn>>

FolderNext == ProcessFolder

FolderSpec == FolderInit /\ [][FolderNext]_vars

(***************************************************************************)
(* Two scans at the same time: the statements of add_album and             *)
(* add_media_file of two executor jobs, interleaved on the one connection  *)
(***************************************************************************)

\* How many scans one executor job runs.
MaxScans == 2

\* The value add_album and add_media_file return after an sqlite3.Error.
Failed == -1

\* The path column declared without UNIQUE: no INSERT fails.
AlbumPathConflict_NoConstraint(albs, path) == FALSE

\* albums.path TEXT NOT NULL UNIQUE: an INSERT of the path would fail.
AlbumPathConflict(albs, path) == \E a \in albs : a.path = path

\* UNIQUE(album_id, filename): an INSERT of the pair would fail.
MediaFileConflict(med, album_id, filename) ==
    \E m \in med : m.album_id = album_id /\ m.filename = filename

\* The folder and the media file a scanning job is at.
FolderOf(th) == ScanPlan[fs][th.folder]
EntryOf(th) == FolderOf(th).entries[th.entry]

\* The job after _process_album_folder returns: the next folder, or the end.
NextFolder(th) ==
    IF th.folder < Len(ScanPlan[fs])
    THEN [th EXCEPT !.pc = "select", !.folder = @ + 1, !.entry = 0,
                    !.found = Null, !.album_id = Null]
    ELSE [NotScanning EXCEPT !.runs = th.runs, !.faults = th.faults]

\* The job after add_album or add_media_file returns: the next media file of
\* the folder, or the next folder.
NextEntry(th) ==
    IF th.entry < Len(FolderOf(th).entries)
    THEN [th EXCEPT !.pc = "select", !.entry = @ + 1, !.found = Null]
    ELSE NextFolder(th)

\* The first INSERT or UPDATE after a commit or rollback begins a transaction.
Begin == IF txn = <<>> THEN <<[albums |-> albums, media |-> media]>> ELSE txn

\* self._conn.rollback(): everything written on the connection since the
\* transaction began is undone, whichever job wrote it.
Rollback ==
    /\ albums' = IF txn = <<>> THEN albums ELSE txn[1].albums
    /\ media' = IF txn = <<>> THEN media ELSE txn[1].media
    /\ txn' = <<>>

\* No scan, no update and no service call is running; the store is empty or
\* holds what an earlier scan of the tree left.
RaceInit ==
    \E v \in DOMAIN FileSystems, scanned \in BOOLEAN :
        LET db == IF scanned
                  THEN ScanStore([albums |-> {}, media |-> {}, album_count |-> 0,
                                  media_count |-> 0], ScanPlan[1])
                  ELSE [albums |-> {}, media |-> {}]
        IN  /\ albums = db.albums
            /\ media = db.media
            /\ clock = 0
            /\ current_media_id = Null
            /\ album_filter = Null
            /\ time_range = NoRange
            /\ data = [selected_media |-> Null, count_total |-> Null,
                       count_unseen |-> Null]
            /\ fs = v
            /\ last = Op("init", <<>>, <<>>)
            /\ shown = {}
            /\ marked = {}
            /\ threads = [t \in Threads |-> NotScanning]
            /\ txn = <<>>
            /\ conn = "open"
            /\ schema_version = <<DB_VERSION>>

\* hass.async_add_executor_job(media_scanner.scan)
StartScan(t) ==
    /\ threads[t].pc = "idle"
    /\ threads[t].runs < MaxScans
    /\ threads' = [threads EXCEPT ![t] = [pc |-> "select", folder |-> 1, entry |-> 0,
                                          found |-> Null, album_id |-> Null,
                                          runs |-> threads[t].runs + 1,
                                          faults |-> threads[t].faults]]
    /\ last' = Op("scan", <<>>, <<t>>)
    /\ UNCHANGED <<schema_version, conn, albums, media, clock, current_media_id, album_filter, time_range,
                   data, fs, shown, marked, txn>>

\* The SELECT that looks the row up; add_media_file returns the id it finds.
Select(t) ==
    LET th == threads[t]
    IN  /\ th.pc = "select"
        /\ IF th.entry = 0
           THEN LET rows == {a \in albums : a.path = FolderOf(th).path}
                IN  /\ threads' = [threads EXCEPT ![t] =
                           [th EXCEPT !.pc = "write",
                                      !.found = IF rows = {} THEN Null
                                                ELSE (CHOOSE a \in rows : TRUE).id]]
                    /\ UNCHANGED last
           ELSE LET rows == {m \in media : /\ m.album_id = th.album_id
                                           /\ m.filename = EntryOf(th).filename}
                IN  IF rows = {}
                    THEN /\ threads' = [threads EXCEPT ![t] = [th EXCEPT !.pc = "write"]]
                         /\ UNCHANGED last
                    ELSE /\ threads' = [threads EXCEPT ![t] = NextEntry(th)]
                         /\ last' = Op("add_media_file", <<>>,
                                       <<(CHOOSE m \in rows : TRUE).id>>)
        /\ UNCHANGED <<schema_version, conn, albums, media, clock, current_media_id, album_filter,
                       time_range, data, fs, shown, marked, txn>>

\* The UPDATE or INSERT that follows; an INSERT that breaks a UNIQUE constraint
\* raises sqlite3.IntegrityError: rollback, return -1.
Write(t) ==
    LET th == threads[t]
    IN  /\ th.pc = "write"
        /\ IF th.entry = 0 /\ th.found # Null
           THEN /\ albums' = {IF a.path = FolderOf(th).path
                              THEN [a EXCEPT !.name = FolderOf(th).info.name,
                                             !.year = FolderOf(th).info.year,
                                             !.month = FolderOf(th).info.month]
                              ELSE a : a \in albums}
                /\ txn' = Begin
                /\ threads' = [threads EXCEPT ![t] =
                                  [th EXCEPT !.pc = "commit", !.album_id = th.found]]
                /\ UNCHANGED <<schema_version, conn, media, last>>
           ELSE IF th.entry = 0
           THEN IF AlbumPathConflict(albums, FolderOf(th).path)
                THEN /\ Rollback
                     /\ threads' = [threads EXCEPT ![t] = NextFolder(th)]
                     /\ last' = Op("add_album", <<>>, <<Failed>>)
                ELSE /\ albums' = albums \cup
                            {[id |-> LastRowId(albums), path |-> FolderOf(th).path,
                              name |-> FolderOf(th).info.name,
                              year |-> FolderOf(th).info.year,
                              month |-> FolderOf(th).info.month]}
                     /\ txn' = Begin
                     /\ threads' = [threads EXCEPT ![t] =
                            [th EXCEPT !.pc = "commit", !.album_id = LastRowId(albums)]]
                     /\ UNCHANGED <<schema_version, conn, media, last>>
           ELSE IF MediaFileConflict(media, th.album_id, EntryOf(th).filename)
                THEN /\ Rollback
                     /\ threads' = [threads EXCEPT ![t] = NextEntry(th)]
                     /\ last' = Op("add_media_file", <<>>, <<Failed>>)
                ELSE /\ media' = media \cup
                            {[id |-> LastRowId(media), album_id |-> th.album_id,
                              filename |-> EntryOf(th).filename,
                              extension |-> Lower(EntryOf(th).extension),
                              is_video |-> EntryOf(th).is_video,
                              seen |-> FALSE, last_shown |-> Null]}
                     /\ txn' = Begin
                     /\ threads' = [threads EXCEPT ![t] = [th EXCEPT !.pc = "commit"]]
                     /\ UNCHANGED <<schema_version, conn, albums, last>>
        /\ UNCHANGED <<schema_version, conn, clock, current_media_id, album_filter, time_range, data, fs,
                       shown, marked>>

\* self._conn.commit() and the return of the id.
Commit(t) ==
    LET th == threads[t]
    IN  /\ th.pc = "commit"
        /\ txn' = <<>>
        /\ threads' = [threads EXCEPT ![t] = NextEntry(th)]
        /\ last' = Op(IF th.entry = 0 THEN "add_album" ELSE "add_media_file", <<>>,
                      <<IF th.entry = 0 THEN th.album_id ELSE t>>)
        /\ UNCHANGED <<schema_version, conn, albums, media, clock, current_media_id, album_filter,
                       time_range, data, fs, shown, marked>>

RaceNext ==
    \E t \in Threads :
        \/ StartScan(t)
        \/ Select(t)
        \/ Write(t)
        \/ Commit(t)

RaceSpec == RaceInit /\ [][RaceNext]_vars

(***************************************************************************)
(* Storage faults: any statement of add_album and add_media_file can raise *)
(***************************************************************************)

\* How many statements of one executor job raise sqlite3.Error.
MaxFaults == 1

\* The SELECT, the INSERT or UPDATE, or the commit of the call raises
\* sqlite3.Error (disk I/O error, database is locked): the except clause rolls
\* back and returns -1; the scanner goes on with the next folder after
\* add_album, with the next file after add_media_file.
Fault(t) ==
    LET th == threads[t]
        next == IF th.entry = 0 THEN NextFolder(th) ELSE NextEntry(th)
    IN  /\ th.pc \in {"select", "write", "commit"}
        /\ th.faults < MaxFaults
        /\ Rollback
        /\ threads' = [threads EXCEPT ![t] = [next EXCEPT !.faults = th.faults + 1]]
        /\ last' = Op(IF th.entry = 0 THEN "add_album" ELSE "add_media_file",
                      <<[fn |-> "fault", at |-> th.pc, job |-> t]>>, <<Failed>>)
        /\ UNCHANGED <<schema_version, conn, clock, current_media_id, album_filter, time_range, data, fs,
                       shown, marked>>

\* Each executor job runs one scan.
FaultNext ==
    \E t \in Threads :
        \/ threads[t].runs = 0 /\ StartScan(t)
        \/ Select(t)
        \/ Write(t)
        \/ Commit(t)
        \/ Fault(t)

FaultSpec == RaceInit /\ [][FaultNext]_vars

(***************************************************************************)
(* close() and the calls of the store's operations                         *)
(***************************************************************************)

\* What an operation returns from its except clause; an operation without a
\* return statement returns None.
DefaultOf(fn) ==
    CASE fn \in {"add_album", "add_media_file"} -> <<Failed>>
      [] fn \in {"get_media_count", "get_unseen_count"} -> <<0>>
      [] fn = "get_albums" -> <<<<>>>>
      [] OTHER -> <<Null>>

\* How a call ends: it returns from its try block or from its except clause
\* (how = "return"), or an exception leaves it (how = "raise").
CallEnd(fn, how, from) ==
    Op(fn, <<[fn |-> how, from |-> from]>>,
       IF from = "except" THEN DefaultOf(fn) ELSE <<>>)

\* close(), on shutdown or unload: the connection is closed and _conn is None.
Close ==
    /\ conn' = "closed"
    /\ UNCHANGED <<albums, media, clock, current_media_id, album_filter, time_range,
                   data, fs, last, shown, marked, threads, txn, schema_version>>

\* The first statement of every operation of the store, before its try block:
\* cursor = self._conn.cursor(). On None it raises AttributeError.
EnterCall ==
    LET StoreOps == {"add_album", "add_media_file", "get_album_by_path",
                     "get_albums", "get_media_count", "get_unseen_count",
                     "get_random_unseen_media", "mark_media_as_seen",
                     "get_previously_shown_media", "reset_seen_status",
                     "get_album_by_id", "clear_database", "get_media_by_id"}
    IN  \E fn \in StoreOps :
            /\ last.calls # <<[fn |-> "cursor"]>>
            /\ last' = IF conn = "closed" THEN CallEnd(fn, "raise", "AttributeError")
                       ELSE Op(fn, <<[fn |-> "cursor"]>>, <<>>)
            /\ UNCHANGED <<albums, media, clock, current_media_id, album_filter,
                           time_range, data, fs, shown, marked, threads, txn, conn, schema_version>>

\* The try block and the except clause of the operation. A statement on a
\* closed connection raises sqlite3.ProgrammingError, any statement can raise
\* sqlite3.Error; the except clause returns the default, after
\* self._conn.rollback() where the operation writes: on None, AttributeError.
\* (What the operations do to the tables is left to the other specifications.)
FinishCall ==
    LET RollbackOps == {"add_album", "add_media_file", "mark_media_as_seen",
                        "reset_seen_status", "clear_database"}
    IN  /\ last.calls = <<[fn |-> "cursor"]>>
        /\ \E fault \in BOOLEAN :
              last' = IF conn = "closed"
                      THEN IF last.op \in RollbackOps
                           THEN CallEnd(last.op, "raise", "AttributeError")
                           ELSE CallEnd(last.op, "return", "except")
                      ELSE IF fault THEN CallEnd(last.op, "return", "except")
                      ELSE CallEnd(last.op, "return", "try")
        /\ UNCHANGED <<albums, media, clock, current_media_id, album_filter,
                       time_range, data, fs, shown, marked, threads, txn, conn, schema_version>>

CloseNext ==
    \/ Close
    \/ EnterCall
    \/ FinishCall

CloseSpec == RaceInit /\ [][CloseNext]_vars

(***************************************************************************)
(* DatabaseManager(hass) on a database file that exists                    *)
(***************************************************************************)

\* The longest log of version rows in a database file found on disk.
MaxVersions == 2

\* Mutant: the migration routine runs on every open.
CheckVersion_Always(log) == Append(log, DB_VERSION)

\* _check_version on the version rows `log`: SELECT version FROM schema_version
\* ORDER BY id DESC LIMIT 1; if there is a row and its version is not DB_VERSION,
\* _migrate_database INSERTs a row (DB_VERSION, now) and commits.
CheckVersion(log) ==
    IF log # <<>> /\ log[Len(log)] # DB_VERSION THEN Append(log, DB_VERSION)
    ELSE log

\* _setup_database when os.path.exists(self._db_path): sqlite3.connect, then
\* _check_version.
Open ==
    /\ conn = "closed"
    /\ conn' = "open"
    /\ schema_version' = CheckVersion(schema_version)
    /\ last' = Op("_setup_database", <<>>, <<schema_version>>)
    /\ UNCHANGED <<albums, media, clock, current_media_id, album_filter, time_range,
                   data, fs, shown, marked, threads, txn>>

\* A database file left by an earlier run of this release, of an older one
\* (DB_VERSION - 1) or of a newer one (DB_VERSION + 1): every release's
\* _create_tables and _migrate_database write version rows. The store is opened
\* on it, scanned, updated and closed, again and again.
OpenSpec ==
    /\ \E n \in 1..MaxVersions :
          \E log \in [1..n -> (DB_VERSION - 1)..(DB_VERSION + 1)] :
              schema_version = log
    /\ \E scanned \in BOOLEAN :
          LET db == IF scanned
                    THEN ScanStore([albums |-> {}, media |-> {}, album_count |-> 0,
                                    media_count |-> 0], ScanPlan[1])
                    ELSE [albums |-> {}, media |-> {}]
          IN  albums = db.albums /\ media = db.media
    /\ clock = 0 /\ current_media_id = Null
    /\ album_filter = Null /\ time_range = NoRange
    /\ data = [selected_media |-> Null, count_total |-> Null, count_unseen |-> Null]
    /\ fs = 1 /\ last = Op("init", <<>>, <<>>) /\ shown = {} /\ marked = {}
    /\ threads = [t \in Threads |-> NotScanning] /\ txn = <<>>
    /\ conn = "closed"
    /\ [][\/ Open
          \/ Close
          \/ conn = "open" /\ HandleScanMedia
          \/ conn = "open" /\ Tick]_vars

(***************************************************************************)
(* A scan in one executor job while the update runs its store calls in     *)
(* another: the statements of both, interleaved on the shared connection   *)
(***************************************************************************)

\* _async_update_data begins: get_media_count and get_unseen_count.
UpdateCount(t) ==
    /\ threads[t].pc = "idle"
    /\ clock < MaxClock
    /\ threads' = [threads EXCEPT ![t] =
                      [pc |-> "pick", found |-> Null,
                       count_total |-> GetMediaCount(media),
                       count_unseen |-> GetUnseenCount(media, album_filter)]]
    /\ last' = Op("get_unseen_count", <<>>, <<GetUnseenCount(media, album_filter)>>)
    /\ UNCHANGED <<schema_version, conn, albums, media, clock, current_media_id, album_filter, time_range,
                   data, fs, shown, marked, txn>>

\* _get_next_media: get_random_unseen_media, the first time under the filters,
\* after a reset under the filter the reset went by. Nothing found the first
\* time: on to the reset. Otherwise _async_update_data sets _current_media_id
\* to a new item and goes on to mark it, or publishes its data at once.
UpdatePick(t) ==
    LET th == threads[t]
        af == album_filter
        tr == IF th.pc = "pick" \/ (af = Null /\ AllSet(time_range))
              THEN time_range ELSE NoRange
    IN  /\ th.pc \in {"pick", "retry"}
        /\ \E ret \in GetRandomUnseenMedia(albums, media, af, tr) :
              /\ last' = Op("get_random_unseen_media", <<QueryCall(af, tr)>>, <<ret>>)
              /\ IF ret = Null /\ th.pc = "pick"
                 THEN /\ threads' = [threads EXCEPT ![t] = [th EXCEPT !.pc = "reset"]]
                      /\ UNCHANGED <<current_media_id, data>>
                 ELSE IF MarksSelected(ret, current_media_id)
                 THEN /\ threads' = [threads EXCEPT ![t] =
                                        [th EXCEPT !.pc = "mark", !.found = ret]]
                      /\ current_media_id' = ret
                      /\ UNCHANGED data
                 ELSE /\ threads' = [threads EXCEPT ![t] = NotScanning]
                      /\ data' = [selected_media |-> ret,
                                  count_total |-> th.count_total,
                                  count_unseen |-> th.count_unseen]
                      /\ UNCHANGED current_media_id
        /\ UNCHANGED <<schema_version, conn, albums, media, clock, album_filter, time_range, fs, shown,
                       marked, txn>>

\* _get_next_media: reset_seen_status for the album, else for the date range,
\* else for everything: its UPDATE, which begins a transaction unless one is
\* open on the connection.
UpdateReset(t) ==
    LET th == threads[t]
    IN  /\ th.pc = "reset"
        /\ media' = ResetSeenStatus(albums, media, album_filter,
                                    album_filter = Null, time_range)
        /\ txn' = Begin
        /\ threads' = [threads EXCEPT ![t] = [th EXCEPT !.pc = "reset_commit"]]
        /\ last' = Op("reset_seen_status",
                      <<ResetCall(album_filter,
                                  IF album_filter = Null /\ AllSet(time_range)
                                  THEN time_range ELSE NoRange)>>, <<>>)
        /\ UNCHANGED <<schema_version, conn, albums, clock, current_media_id, album_filter, time_range,
                       data, fs, shown, marked>>

\* mark_media_as_seen(selected_media["id"]): its UPDATE.
UpdateMark(t) ==
    LET th == threads[t]
    IN  /\ th.pc = "mark"
        /\ media' = MarkMediaAsSeen(media, th.found, clock + 1)
        /\ clock' = clock + 1
        /\ txn' = Begin
        /\ threads' = [threads EXCEPT ![t] = [th EXCEPT !.pc = "mark_commit"]]
        /\ last' = Op("mark_media_as_seen", <<>>, <<th.found>>)
        /\ UNCHANGED <<schema_version, conn, albums, current_media_id, album_filter, time_range, data,
                       fs, shown, marked>>

\* self._conn.commit() of reset_seen_status and of mark_media_as_seen, which
\* commits whatever is pending on the connection (nothing, if a rollback came
\* in between); after the mark _async_update_data returns its data.
UpdateCommit(t) ==
    LET th == threads[t]
    IN  /\ th.pc \in {"reset_commit", "mark_commit"}
        /\ txn' = <<>>
        /\ IF th.pc = "reset_commit"
           THEN /\ threads' = [threads EXCEPT ![t] = [th EXCEPT !.pc = "retry"]]
                /\ UNCHANGED data
           ELSE /\ threads' = [threads EXCEPT ![t] = NotScanning]
                /\ data' = [selected_media |-> th.found,
                            count_total |-> th.count_total,
                            count_unseen |-> th.count_unseen]
        /\ UNCHANGED <<schema_version, conn, albums, media, clock, current_media_id, album_filter,
                       time_range, fs, last, shown, marked>>

\* Job 1 scans, job 2 updates. The two jobs use the one connection with no
\* lock, and the connection's transaction state is read and changed by both:
\* the scan's INSERT or UPDATE, begun while the update's UPDATE begins its
\* transaction, can raise sqlite3.OperationalError ("cannot start a transaction
\* within a transaction"), and the scan's commit after the update's commit can
\* ("cannot commit - no transaction is active").
InterleaveNext ==
    \/ threads[1].runs = 0 /\ StartScan(1)
    \/ Select(1) \/ Write(1) \/ Commit(1)
    \/ /\ \/ threads[1].pc = "write" /\ threads[2].pc \in {"reset_commit", "mark_commit"}
          \/ threads[1].pc = "commit" /\ txn = <<>>
       /\ Fault(1)
    \/ UpdateCount(2) \/ UpdatePick(2) \/ UpdateReset(2) \/ UpdateMark(2)
    \/ UpdateCommit(2)

InterleaveSpec == RaceInit /\ [][InterleaveNext]_vars

\* Two runs of _async_update_data at once (the coordinator's timer and a
\* service handler's async_refresh, or two handlers): each awaits its executor
\* jobs one after the other, and the jobs of the two runs interleave. The store
\* holds rows shown earlier and rows not yet shown.
OverlapSpec ==
    PreviousInit /\ [][\E t \in Threads : \/ UpdateCount(t) \/ UpdatePick(t)
                                          \/ UpdateReset(t) \/ UpdateMark(t)
                                          \/ UpdateCommit(t)]_vars

(***************************************************************************)
(* scan() when calls of the store return -1                                *)
(***************************************************************************)

\* How many calls of add_album and add_media_file fail in one scan.
MaxFailing == 2

\* _process_album_folder, lines 125-166, when the store calls in `failing`
\* return -1 (0: add_album; j: add_media_file for the j-th media file). A call
\* that returns -1 has rolled back what it wrote. After add_album = -1 the
\* folder yields (None, []); a file with add_media_file = -1 is not appended to
\* media_files.
ProcessAlbumFolderFailing(db, folder, failing) ==
    LET RECURSIVE Kept(_)
        Kept(j) == IF j > Len(folder.entries) THEN <<>>
                   ELSE (IF j \in failing THEN <<>> ELSE <<folder.entries[j]>>)
                        \o Kept(j + 1)
    IN  IF 0 \in failing THEN db
        ELSE ProcessAlbumFolder(db, [folder EXCEPT !.entries = Kept(1)])

\* What scan() finds in each tree with the configured paths in one of two
\* orders: the directory /q, which does not exist, last or first.
FailurePlan ==
    [v \in DOMAIN FileSystems |->
        [paths \in {MediaPaths, <<MediaPaths[3], MediaPaths[1], MediaPaths[2]>>} |->
            ScanFolders(FileSystems[v], paths)]]

\* scan() with at most MaxFailing store calls returning -1.
ScanWithFailures ==
    \E paths \in DOMAIN FailurePlan[fs] :
        LET folders == FailurePlan[fs][paths]
            calls == {c \in (1..Len(folders)) \X (0..2) :
                         c[2] <= Len(folders[c[1]].entries)}
        IN  \E failing \in {F \in SUBSET calls : Cardinality(F) <= MaxFailing} :
                LET RECURSIVE Run(_, _)
                    Run(db, i) ==
                        IF i > Len(folders) THEN db
                        ELSE Run(ProcessAlbumFolderFailing(
                                     db, folders[i],
                                     {c[2] : c \in {x \in failing : x[1] = i}}),
                                 i + 1)
                    db == Run([albums |-> albums, media |-> media,
                               album_count |-> 0, media_count |-> 0], 1)
                IN  /\ albums' = db.albums
                    /\ media' = db.media
                    /\ last' = Op("scan", <<[fn |-> "scan", paths |-> paths,
                                             failing |-> failing]>>,
                                  <<db.album_count, db.media_count>>)
                    /\ UNCHANGED <<schema_version, conn, clock, current_media_id, album_filter,
                                   time_range, data, fs, shown, marked, threads, txn>>

ScanFailureSpec == RaceInit /\ [][ScanWithFailures]_vars

(***************************************************************************)
(* Claims                                                                  *)
(***************************************************************************)

\* An operation that ran _async_update_data (a tick, or a handler's refresh).
Updated == last.op \in {"_async_update_data", "handle_set_album_filter",
                        "handle_clear_album_filter", "handle_set_time_range",
                        "handle_clear_time_range", "handle_reset_seen_status",
                        "handle_scan_media"}
           /\ last.calls # <<>>

\* The reset calls among the store calls of the last operation.
Resets(calls) == {i \in DOMAIN calls : calls[i].fn = "reset_seen_status"}

\* The media rows the active filters admit: the filtered album when the album
\* filter is set, albums dated within the range when the date range is set.
InActiveScope(m) ==
    /\ album_filter # Null => m.album_id = album_filter
    /\ time_range # NoRange => DatedWithin(AlbumOf(albums, m), time_range)
ActiveRows == {m \in media : InActiveScope(m)}
ActiveUnseen == {m \in ActiveRows : ~m.seen}

\* C1: show each item once before repeating: with the filters fixed and no scan
\* or external reset, an update tick never returns an item that an earlier tick
\* returned unless a reset covering the item ran in between.
C1_EachItemOnceBeforeRepeating ==
    [][(last'.op = "_async_update_data" /\ data'.selected_media # Null)
          => data'.selected_media
                \notin (shown \ Covered(albums, media, last'.calls))]_vars

\* C2: after every update that returns a non-null selected_media, the row of
\* that item has seen = true and a non-null last_shown.
C2_SelectedIsMarkedSeen ==
    (Updated /\ data.selected_media # Null)
        => \E m \in media : /\ m.id = data.selected_media
                            /\ m.seen
                            /\ m.last_shown # Null

\* C3: in every reachable state every media row has seen = false exactly when
\* its last_shown is null.
C3_SeenIffLastShown ==
    \A m \in media : (m.seen = FALSE) <=> (m.last_shown = Null)

\* C3 witness: after an update that reset a scope and marked its selection, a
\* seen row with a timestamp stands beside an unseen row without one.
C3_Witness ==
    /\ Updated /\ Resets(last.calls) # {}
    /\ \E m \in media : m.seen /\ m.last_shown # Null /\ m.id = current_media_id
    /\ \E m \in media : ~m.seen /\ m.last_shown = Null /\ m.id \notin marked

\* A date range as a caller supplies it: all four components, each a year or a
\* month (1..12, so never 0); a range with a component missing is no range.
RangeGiven(r) == r.start_year # Null /\ r.start_month # Null
                 /\ r.end_year # Null /\ r.end_month # Null
RangeArgs == {r \in TimeRanges \cup QueryRanges :
                 0 \notin {r.start_year, r.start_month, r.end_year, r.end_month}}

\* The unseen rows that match the supplied filters.
MatchingUnseen(a, r) ==
    {m.id : m \in {x \in media :
        /\ ~x.seen
        /\ a # Null => x.album_id = a
        /\ RangeGiven(r) => DatedWithin(AlbumOf(albums, x), r)}}

\* C4: get_random_unseen_media returns a row exactly when some unseen row
\* matches all the supplied filters; what it can return is exactly the set of
\* those rows, so never a seen row, and every one of them.
C4_RandomUnseenIsAnyMatchingUnseen ==
    /\ \A a \in IdArgs(albums) \cup {Null}, r \in RangeArgs :
          GetRandomUnseenMedia(albums, media, a, r)
              = IF MatchingUnseen(a, r) = {} THEN {Null} ELSE MatchingUnseen(a, r)
    /\ last.op = "get_random_unseen_media"
          => LET c == last.calls[1]
             IN  IF MatchingUnseen(c.album_id, c.range) = {}
                 THEN last.result[1] = Null
                 ELSE last.result[1] \in MatchingUnseen(c.album_id, c.range)

\* C4 witness: a call with both filters returned a row while a seen row and a
\* second unseen row matched the same filters.
C4_Witness ==
    /\ last.op = "get_random_unseen_media"
    /\ last.calls[1].album_id # Null /\ RangeGiven(last.calls[1].range)
    /\ last.result[1] # Null
    /\ Cardinality(MatchingUnseen(last.calls[1].album_id, last.calls[1].range)) = 1
    /\ \E m \in media : m.seen /\ m.album_id = last.calls[1].album_id

\* C5: after mark_media_as_seen(id) no call of get_random_unseen_media, with
\* any filters, returns id until a reset whose scope contains the row has run.
C5_MarkedNotReturnedUntilReset ==
    /\ \A a \in IdArgs(albums) \cup {Null}, r \in TimeRanges \cup QueryRanges :
          GetRandomUnseenMedia(albums, media, a, r) \cap marked = {}
    /\ last.op = "get_random_unseen_media" => last.result[1] \notin marked

\* C5 witness: with one row marked and not reset since, a call returned another row.
C5_Witness ==
    /\ last.op = "get_random_unseen_media"
    /\ last.result[1] # Null
    /\ marked # {}

\* C8: reset_seen_status sets seen = false and last_shown = null for exactly the
\* rows of its scope (all rows, the rows of one album, the rows of the albums
\* dated within the inclusive range) and leaves every other row, and the albums,
\* unchanged; after a reset of everything the unseen count is the total count.
C8_ResetExactlyItsScope ==
    [][last'.op = "reset_seen_status"
          => LET c == last'.calls[1]
                 scope == ScopeIds(albums, media, c.album_id, c.range)
             IN  /\ media' = {IF m.id \in scope
                              THEN [m EXCEPT !.seen = FALSE, !.last_shown = Null]
                              ELSE m : m \in media}
                 /\ albums' = albums
                 /\ (c.album_id = Null /\ c.range = NoRange)
                       => GetUnseenCount(media', Null) = GetMediaCount(media')]_vars

\* C8 witness: a date-range reset left a row of its scope unseen without a
\* timestamp and a seen row outside its scope as it was.
C8_Witness ==
    /\ last.op = "reset_seen_status"
    /\ last.calls[1].range # NoRange
    /\ clock = MaxMarks
    /\ \E m \in media : /\ m.id \in ScopeIds(albums, media, Null, last.calls[1].range)
                        /\ ~m.seen /\ m.last_shown = Null
    /\ \E m \in media : /\ m.id \notin ScopeIds(albums, media, Null, last.calls[1].range)
                        /\ m.seen /\ m.last_shown # Null

\* The scope _get_next_media resets when the filtered pool is exhausted: the
\* album when an album filter is set, else the date range when one is set, else
\* everything.
ResetScope == IF album_filter # Null THEN [album_id |-> album_filter, range |-> NoRange]
              ELSE IF RangeGiven(time_range) THEN [album_id |-> Null, range |-> time_range]
              ELSE [album_id |-> Null, range |-> NoRange]

\* C6: when the N items of the active scope have been selected and marked seen
\* in N consecutive cycles and none of the scope is left unseen, the next
\* selection makes exactly one reset, whose scope includes the active scope, and
\* returns an item, provided the scope holds at least one item.
C6_ExhaustionResetsOnce ==
    [][(last'.op = "_async_update_data" /\ ActiveUnseen = {} /\ ActiveRows # {})
          => /\ Cardinality(Resets(last'.calls)) = 1
             /\ last'.after = last.cycles
             /\ \A i \in Resets(last'.calls) :
                   {m.id : m \in ActiveRows}
                       \subseteq ScopeIds(albums, media, last'.calls[i].album_id,
                                          last'.calls[i].range)
             /\ data'.selected_media # Null]_vars

\* C6 witness: two select-and-mark cycles in a row used up the scope, and the
\* third selection made one reset and returned an item.
C6_Witness ==
    /\ last.op = "_async_update_data"
    /\ last.after = 2
    /\ Cardinality(Resets(last.calls)) = 1
    /\ data.selected_media # Null

\* C7: _get_next_media resets only when its first filtered query finds nothing;
\* then it makes exactly one reset and one second query, for the album when an
\* album filter is set, else for the date range when all four of its components
\* are set, else for everything and unfiltered; rows outside the reset's scope
\* stay as they are. When the first query finds an item no row is modified by
\* the selection (only the selected row is touched, by the marking that follows).
C7_ResetPrecedence ==
    [][last'.op = "_async_update_data"
          => IF MatchingUnseen(album_filter, time_range) # {}
             THEN /\ last'.calls = <<QueryCall(album_filter, time_range)>>
                  /\ \A m \in media : m.id # data'.selected_media => m \in media'
                  /\ data'.selected_media \in MatchingUnseen(album_filter, time_range)
             ELSE /\ last'.calls = <<QueryCall(album_filter, time_range),
                                     ResetCall(ResetScope.album_id, ResetScope.range),
                                     QueryCall(ResetScope.album_id, ResetScope.range)>>
                  /\ \A m \in media :
                        m.id # data'.selected_media
                            => (IF m.id \in ScopeIds(albums, media, ResetScope.album_id,
                                                     ResetScope.range)
                                THEN [m EXCEPT !.seen = FALSE, !.last_shown = Null]
                                ELSE m) \in media'
                  /\ data'.selected_media
                        \in ScopeIds(albums, media, ResetScope.album_id, ResetScope.range)
                                \cup {Null}]_vars

\* C7 witness: with an album filter and a date range both set, the selection
\* reset the album only, while a seen row of another album, dated within the
\* range, stayed seen.
C7_Witness ==
    /\ last.op = "_async_update_data"
    /\ album_filter # Null /\ time_range # NoRange
    /\ last.calls = <<QueryCall(album_filter, time_range),
                      ResetCall(album_filter, NoRange),
                      QueryCall(album_filter, NoRange)>>
    /\ data.selected_media # Null
    /\ \E m \in media : /\ m.album_id # album_filter /\ m.seen
                        /\ DatedWithin(AlbumOf(albums, m), time_range)

\* C7 witness for the date range: with no album filter the selection reset the
\* rows of the range, and a seen row outside the range stayed seen.
C7_RangeWitness ==
    /\ last.op = "_async_update_data"
    /\ album_filter = Null /\ time_range # NoRange
    /\ Len(last.calls) = 3 /\ last.calls[2] = ResetCall(Null, time_range)
    /\ data.selected_media # Null
    /\ \E m \in media : m.seen /\ ~DatedWithin(AlbumOf(albums, m), time_range)

\* The identity of the media rows: everything but the seen state.
RowKeys(med) == {[id |-> m.id, album_id |-> m.album_id, filename |-> m.filename,
                  extension |-> m.extension, is_video |-> m.is_video] : m \in med}

\* C10: a scan that directly follows a scan of the same, unchanged tree creates
\* no album row and no media row: the albums are the same rows, the media rows
\* are the same files, and get_media_count() and the number of albums are as
\* after the first scan.
C10_ScanIdempotent ==
    [][(last'.op = "handle_scan_media" /\ last'.repeat)
          => /\ albums' = albums
             /\ RowKeys(media') = RowKeys(media)
             /\ GetMediaCount(media') = GetMediaCount(media)
             /\ Cardinality(albums') = Cardinality(albums)]_vars

\* C10 witness: the larger tree was scanned twice in a row, and the store holds
\* its dated, undated and empty albums and all its media files.
C10_Witness ==
    /\ last.op = "handle_scan_media" /\ last.repeat
    /\ fs = Len(FileSystems)
    /\ GetMediaCount(media) = 3
    /\ \E a \in albums : a.year = Null
    /\ \E a \in albums : a.year # Null

\* (start_year, start_month) <= (a.year, a.month) <= (end_year, end_month) in
\* lexicographic order.
WithinRange(a, r) ==
    /\ a.year # Null /\ a.month # Null
    /\ (r.start_year < a.year \/ (r.start_year = a.year /\ r.start_month <= a.month))
    /\ (a.year < r.end_year \/ (a.year = r.end_year /\ a.month <= r.end_month))

\* C9: for every album date and every date range, each of the three filtered
\* operations accepts the album's rows exactly when the album date lies in the
\* inclusive lexicographic interval of the range: the unseen query returns an
\* unseen row of the album, the previous query a shown row, the reset clears
\* its rows, in that case and in no other.
C9_RangeIsInclusiveInterval ==
    \A a \in albums :
        LET rows == {m \in media : m.album_id = a.id}
            in == WithinRange(a, time_range)
        IN  /\ UnseenRows(albums, media, Null, time_range)
                   = IF in THEN {m.id : m \in {x \in rows : ~x.seen}} ELSE {}
            /\ ShownRows(albums, media, Null, Null, time_range)
                   = IF in THEN {m.id : m \in {x \in rows : x.last_shown # Null}} ELSE {}
            /\ ResetWhere(albums, media, Null, TRUE, time_range)
                   = IF in THEN rows ELSE {}
            /\ last.op = "get_random_unseen_media"
                  => (last.result[1] # Null <=> in)
            /\ last.op = "get_previously_shown_media"
                  => (last.result[1] # Null <=> (in /\ \E m \in rows : m.seen))
            /\ last.op = "reset_seen_status"
                  => ((\A m \in rows : ~m.seen) <=> in)

\* C9 witness: an album dated at the very start of a range that ends in the same
\* year was accepted by the unseen query.
C9_Witness ==
    /\ last.op = "get_random_unseen_media"
    /\ last.result[1] # Null
    /\ \E a \in albums : /\ a.year = time_range.start_year
                         /\ a.month = time_range.start_month
                         /\ a.year = time_range.end_year
                         /\ a.month < time_range.end_month

\* C9 witness at the end of the range: an album dated at the very end of the
\* range was cleared by the reset.
C9_EndWitness ==
    /\ last.op = "reset_seen_status"
    /\ \E a \in albums : a.year = time_range.end_year /\ a.month = time_range.end_month
    /\ \A m \in media : ~m.seen

\* C11: add_media_file on an (album_id, filename) pair that exists returns the
\* id of the existing row and changes no row: seen, last_shown, extension and
\* is_video stay as they are; so a scan of any tree leaves every existing media
\* row, seen or not, exactly as it was.
C11_AddExistingMediaIsNoOp ==
    /\ [](\A a \in albums, x \in FileArgs, y \in FileArgs :
            \A m \in media :
                (m.album_id = a.id /\ m.filename = x.filename)
                    => /\ AddMediaRows(media, a.id, x.filename, Lower(y.extension),
                                       y.is_video) = media
                       /\ AddMediaId(media, a.id, x.filename) = m.id)
    /\ [](\A v \in DOMAIN ScanPlan :
            media \subseteq ScanStore([albums |-> albums, media |-> media,
                                       album_count |-> 0, media_count |-> 0],
                                      ScanPlan[v]).media)
    /\ [][(last'.op = "add_media_file" /\ last'.repeat)
             => /\ media' = media
                /\ \E m \in media : /\ m.album_id = last'.calls[1].album_id
                                    /\ m.filename = last'.calls[1].filename
                                    /\ m.id = last'.result[1]]_vars

\* C11 witness: add_media_file was called for the file of a seen row, with
\* another extension and is_video than the row has, and the row is still seen.
C11_Witness ==
    /\ last.op = "add_media_file" /\ last.repeat
    /\ \E m \in media : /\ m.id = last.result[1]
                        /\ m.seen /\ m.last_shown # Null
                        /\ m.is_video # last.calls[1].is_video
                        /\ m.extension # Lower(last.calls[1].extension)

\* C12: in every reachable state no two album rows have the same path and no
\* two media rows have the same (album_id, filename), also when the look-ups
\* and inserts of two scans interleave.
C12_PathsAndFilesUnique ==
    /\ \A a, b \in albums : a.path = b.path => a = b
    /\ \A m, n \in media : (m.album_id = n.album_id /\ m.filename = n.filename) => m = n

\* C12 witness: two scans ran at once, both looked a path up before either
\* inserted it, and the second INSERT failed on the UNIQUE constraint.
C12_Witness ==
    /\ last.op = "add_album" /\ last.result = <<Failed>>
    /\ \A t \in Threads : threads[t].runs = 1
    /\ albums # {}

\* C13: add_album on a path that is present updates name, year and month of
\* that row in place and returns its id; the number of album rows and every
\* media row, with its album_id, are unchanged. On a path that is not present
\* it inserts exactly one row and returns its id, which no other album has.
C13_AddAlbumUpserts ==
    [][last'.op = "add_album"
          => LET c == last'.calls[1]
                 old == {a \in albums : a.path = c.path}
             IN  /\ media' = media
                 /\ IF old # {}
                    THEN /\ albums' = {IF a \in old
                                       THEN [a EXCEPT !.name = c.name, !.year = c.year,
                                                      !.month = c.month]
                                       ELSE a : a \in albums}
                         /\ \A a \in old : last'.result = <<a.id>>
                         /\ Cardinality(albums') = Cardinality(albums)
                    ELSE /\ \E id \in {a.id : a \in albums'} \ {a.id : a \in albums} :
                               /\ albums' = albums \cup
                                     {[id |-> id, path |-> c.path, name |-> c.name,
                                       year |-> c.year, month |-> c.month]}
                               /\ last'.result = <<id>>
                         /\ Cardinality(albums') = Cardinality(albums) + 1]_vars

\* C13 witness: add_album gave the album of a media row another name and date,
\* and the media row still belongs to it.
C13_Witness ==
    /\ last.op = "add_album" /\ last.repeat
    /\ \E a \in albums : /\ a.id = last.result[1]
                         /\ a.name = <<"w">> /\ a.year = 2021
                         /\ \E m \in media : m.album_id = a.id /\ m.seen
    /\ Cardinality(albums) = 2

\* The rows get_previously_shown_media chooses from: shown at some time, not
\* the current one, matching the supplied filters.
Eligible(current, a, r) ==
    {m \in media :
        /\ m.last_shown # Null
        /\ current # Null => m.id # current
        /\ a # Null => m.album_id = a
        /\ RangeGiven(r) => DatedWithin(AlbumOf(albums, m), r)}
Latest(rows) == {m.id : m \in {x \in rows : \A y \in rows : y.last_shown <= x.last_shown}}

\* C14: get_previously_shown_media(current_id, filters) returns the row with
\* the greatest last_shown among the rows that have a last_shown, are not
\* current_id and match the supplied album and date-range filters, and returns
\* None exactly when there is no such row: for every store the queries start
\* from (they leave it as it is) and all arguments, and for every call made.
C14_PreviousIsLatestShown ==
    /\ last.op = "init"
          => \A current \in IdArgs(media) \cup {Null}, a \in IdArgs(albums) \cup {Null},
                r \in RangeArgs :
                GetPreviouslyShownMedia(albums, media, current, a, r)
                    = IF Eligible(current, a, r) = {} THEN {Null}
                      ELSE Latest(Eligible(current, a, r))
    /\ last.op = "get_previously_shown_media"
          => LET c == last.calls[1]
                 rows == Eligible(c.current, c.album_id, c.range)
             IN  IF rows = {} THEN last.result[1] = Null
                 ELSE last.result[1] \in Latest(rows)

\* C14 witness: two rows were shown, the call named the later one as current
\* and returned the earlier one.
C14_Witness ==
    /\ last.op = "get_previously_shown_media"
    /\ \E m, n \in media : /\ m.last_shown # Null /\ n.last_shown # Null
                           /\ n.last_shown < m.last_shown
                           /\ last.calls[1].current = m.id
                           /\ last.result[1] = n.id

\* C14 witness without a current item: of two shown rows the later one was returned.
C14_LatestWitness ==
    /\ last.op = "get_previously_shown_media"
    /\ last.calls[1].current = Null
    /\ \E m, n \in media : /\ m.last_shown # Null /\ n.last_shown # Null
                           /\ n.last_shown < m.last_shown
                           /\ last.result[1] = m.id

\* C15: show_previous_image changes seen and last_shown of no media row (and no
\* row at all); with no current item it changes nothing; when no previously
\* shown item is found the current item and the published data stay.
C15_PreviousIsNonDestructive ==
    [][last'.op = "handle_previous_image"
          => /\ media' = media /\ albums' = albums
             /\ album_filter' = album_filter /\ time_range' = time_range
             /\ (current_media_id = Null \/ last'.result = <<Null>>)
                   => (current_media_id' = current_media_id /\ data' = data)
             /\ current_media_id = Null => last'.result = <<Null>>]_vars

\* C15 witness: going back selected an item shown earlier, which is still seen
\* with the timestamp it had, before the timestamp of the item gone back from.
C15_Witness ==
    /\ last.op = "handle_previous_image"
    /\ last.result # <<Null>>
    /\ current_media_id = last.result[1]
    /\ data.selected_media = current_media_id
    /\ \E m, n \in media : /\ m.id = current_media_id /\ m.seen
                           /\ n.seen /\ m.last_shown < n.last_shown

\* C15 witness with nothing displayed: the call changed nothing.
C15_NoCurrentWitness ==
    /\ last.op = "handle_previous_image"
    /\ current_media_id = Null
    /\ media # {}

\* C16: an album folder that yields no media file is still counted by scan():
\* the album count scan() returns is the number of album folders it processed,
\* each of which has its album row, and the media count is the number of their
\* media files.
C16_EmptyAlbumIsCounted ==
    last.op = "handle_scan_media"
        => /\ \A i \in DOMAIN ScanPlan[fs] :
                 \E a \in albums : a.path = ScanPlan[fs][i].path
           /\ last.result[1] = Len(ScanPlan[fs])
           /\ last.result[2] = GetMediaCount(media)

\* The directories reachable from (path, dir) with no excluded name on the way
\* down, each with its path; (path, dir) itself is one of them.
RECURSIVE Reachable(_, _)
Reachable(path, dir) ==
    {[path |-> path, dir |-> dir]}
    \cup UNION {Reachable(PathJoin(path, dir.dirs[i].name), dir.dirs[i])
                   : i \in {j \in DOMAIN dir.dirs : ~ShouldExclude(dir.dirs[j].name)}}

\* A directory all of whose subdirectories, if any, are excluded.
IsLeaf(dir) == \A i \in DOMAIN dir.dirs : ShouldExclude(dir.dirs[i].name)

\* The elements of a sequence.
Range_(seq) == {seq[i] : i \in DOMAIN seq}

\* C17: in recursive mode the folders processed as albums are exactly the
\* directories reachable from the base path through no excluded directory that
\* have no subdirectory left after exclusion, each once: a directory with such a
\* subdirectory is no album although it holds a media file, and nothing at or
\* below an excluded directory is processed.
C17_RecursiveAlbumsAreLeaves ==
    last.op = "_scan_recursive"
        => /\ Range_(last.result)
                 = {x \in Reachable(<<"/", "m">>, WalkTree) : IsLeaf(x.dir)}
           /\ \A i, j \in DOMAIN last.result :
                 last.result[i].path = last.result[j].path => i = j

\* C17 witness: the base directory has an excluded directory with a directory
\* below it and a directory with only an excluded subdirectory; the scan
\* processed the latter, not the former and nothing below it, and not the base
\* directory, which holds a media file.
C17_Witness ==
    /\ last.op = "_scan_recursive"
    /\ \E i \in DOMAIN WalkTree.dirs :
          ShouldExclude(WalkTree.dirs[i].name) /\ WalkTree.dirs[i].dirs # <<>>
    /\ \E i \in DOMAIN WalkTree.dirs :
          /\ ~ShouldExclude(WalkTree.dirs[i].name)
          /\ Len(WalkTree.dirs[i].dirs) = 1
          /\ ShouldExclude(WalkTree.dirs[i].dirs[1].name)
          /\ \E k \in DOMAIN last.result : last.result[k].dir = WalkTree.dirs[i]
    /\ \E i \in DOMAIN WalkTree.dirs :
          /\ ~IsLeaf(WalkTree.dirs[i]) /\ WalkTree.dirs[i].files # <<>>
    /\ Len(last.result) >= 3

\* C18: in current-level mode the folders processed as albums are exactly the
\* immediate children of the base path that are directories and are not
\* excluded, whether or not they have subdirectories, each once: no file of the
\* base directory, not the base directory and no deeper directory is processed.
C18_CurrentLevelAlbumsAreChildren ==
    last.op = "_scan_current_level"
        => /\ Range_(last.result)
                 = {[path |-> PathJoin(<<"/", "m">>, WalkTree.dirs[i].name),
                     dir |-> WalkTree.dirs[i]]
                       : i \in {j \in DOMAIN WalkTree.dirs :
                                   ~ShouldExclude(WalkTree.dirs[j].name)}}
           /\ \A i, j \in DOMAIN last.result :
                 last.result[i].path = last.result[j].path => i = j
           /\ \A i \in DOMAIN last.result :
                 /\ last.result[i].path # <<"/", "m">>
                 /\ \A k \in DOMAIN WalkTree.files :
                       last.result[i].path # PathJoin(<<"/", "m">>, WalkTree.files[k])

\* C18 witness: the base directory holds a file, an excluded directory and a
\* directory that itself has a non-excluded subdirectory; the scan processed
\* the latter and nothing else.
C18_Witness ==
    /\ last.op = "_scan_current_level"
    /\ WalkTree.files # <<>>
    /\ \E i \in DOMAIN WalkTree.dirs : ShouldExclude(WalkTree.dirs[i].name)
    /\ Len(last.result) = 1
    /\ ~IsLeaf(last.result[1].dir)

\* The last n characters of a string are the string suffix.
HasSuffix(path, suffix) ==
    /\ Len(path) >= Len(suffix)
    /\ \A i \in 1..Len(suffix) : path[Len(path) - Len(suffix) + i] = suffix[i]

\* A string without its last n characters.
Stripped(path, n) == [i \in 1..(Len(path) - n) |-> path[i]]

\* The base path names the directory /m of the tree.
IsBase(base_path) == base_path \in {<<"/", "m">>, <<"/", "m", "/">>}

\* The result of a scan is the recursive scan from the base path: the leaves
\* reachable from it, or nothing when the base path is no directory.
IsRecursiveFrom(result, base_path) ==
    /\ Range_(result) = IF IsBase(base_path)
                        THEN {x \in Reachable(base_path, WalkTree) : IsLeaf(x.dir)}
                        ELSE {}
    /\ Len(result) = Cardinality(Range_(result))

\* The result of a scan is the current-level scan from the base path: its
\* non-excluded child directories, or nothing when it is no directory.
IsCurrentLevelFrom(result, base_path) ==
    /\ Range_(result)
          = IF IsBase(base_path)
            THEN {[path |-> PathJoin(base_path, WalkTree.dirs[i].name),
                   dir |-> WalkTree.dirs[i]]
                     : i \in {j \in DOMAIN WalkTree.dirs :
                                 ~ShouldExclude(WalkTree.dirs[j].name)}}
            ELSE {}
    /\ Len(result) = Cardinality(Range_(result))

C19_StarWitness ==
    /\ last.op = "scan"
    /\ ~HasSuffix(last.calls[2].path, <<"*", "*">>)
    /\ HasSuffix(last.calls[2].path, <<"*">>)
    /\ \E i \in DOMAIN last.result : ~IsLeaf(last.result[i].dir)

\* C19 witness: a path with no suffix on a tree with a leaf two levels down:
\* the scan processed it.
C19_PlainWitness ==
    /\ last.op = "scan"
    /\ last.calls[2].path = <<"/", "m">>
    /\ \E i \in DOMAIN last.result : Len(last.result[i].path) > 5

\* The decimal digits, each with its value.
DigitValue == [c \in {"0", "1", "2", "3", "4", "5", "6", "7", "8", "9"} |->
                 CHOOSE v \in 0..9 :
                    <<"0", "1", "2", "3", "4", "5", "6", "7", "8", "9">>[v + 1] = c]

\* A folder name of the form 4 digits, "-" or "_", 2 digits, "-" or "_",
\* remainder.
IsDatedName(name) ==
    /\ Len(name) >= 8
    /\ \A i \in {1, 2, 3, 4, 6, 7} : name[i] \in DOMAIN DigitValue
    /\ name[5] \in {"-", "_"}
    /\ name[8] \in {"-", "_"}

\* The album metadata a folder name stands for.
DatedInfo(name) ==
    IF IsDatedName(name)
    THEN [name |-> [i \in 1..(Len(name) - 8) |-> name[i + 8]],
          year |-> 1000 * DigitValue[name[1]] + 100 * DigitValue[name[2]]
                   + 10 * DigitValue[name[3]] + DigitValue[name[4]],
          month |-> 10 * DigitValue[name[6]] + DigitValue[name[7]]]
    ELSE [name |-> name, year |-> Null, month |-> Null]

\* C20: a folder name of the form 4 digits, "-" or "_", 2 digits, "-" or "_",
\* remainder yields the year of the first group, the month of the second and
\* the remainder as name; every other folder name yields the full folder name
\* as name and no year and no month.
C20_AlbumInfoFromFolderName ==
    last.op = "_process_album_folder" => last.result[1] = DatedInfo(FolderName)

\* The same for the folder names without a line break.
C20_AlbumInfoWithoutLineBreak ==
    (last.op = "_process_album_folder" /\ \A i \in DOMAIN FolderName : FolderName[i] # "\n")
        => last.result[1] = DatedInfo(FolderName)

\* A dated name without a line break and with the longest remainder has been
\* read: its year is that of its first four characters.
C20_DatedWitness ==
    /\ last.op = "_process_album_folder"
    /\ IsDatedName(FolderName)
    /\ Len(FolderName) = 8 + MaxRest
    /\ last.result[1].year = 1999

\* The extensions of images and of videos.
ImageExtensions == DEFAULT_IMAGE_EXTENSIONS
VideoExtensions == DEFAULT_VIDEO_EXTENSIONS

\* The immediate regular files of a folder whose lower-cased extension is an
\* image or video extension.
MediaFilesOf(dir) ==
    {f \in Range_(dir.files) :
        Lower(SplitExt(f)) \in ImageExtensions \cup VideoExtensions}

\* C21: _process_album_folder upserts the album once and upserts exactly the
\* immediate regular files whose lower-cased extension is an image extension
\* (is_video false) or a video extension (is_video true): every other file is
\* ignored, no subdirectory is entered, and every media row created has an
\* extension of one of the two sets.
C21_ProcessAlbumFolderUpserts ==
    [][last'.op = "_process_album_folder" =>
        LET dir == last'.calls[1].dir
            path == PathJoin(<<"/", "m">>, dir.name)
            old == {a \in albums : a.path = path}
            new == {a \in albums' : a.path = path}
            created == media' \ media
        IN  /\ Cardinality(new) = 1
            /\ {a \in albums' : a.path # path} = {a \in albums : a.path # path}
            /\ \A a \in new : /\ \A o \in old : a.id = o.id
                              /\ old = {} => \A o \in albums : o.id # a.id
                              /\ [name |-> a.name, year |-> a.year, month |-> a.month]
                                    = AlbumInfo(path)
            /\ media \subseteq media'
            /\ \A a \in new :
                  /\ {m.filename : m \in {x \in media' : x.album_id = a.id}}
                        = MediaFilesOf(dir)
                           \cup {m.filename : m \in {x \in media : x.album_id = a.id}}
                  /\ \A m \in created :
                        /\ m.album_id = a.id
                        /\ m.filename \in MediaFilesOf(dir)
                        /\ m.extension = Lower(SplitExt(m.filename))
                        /\ m.extension \in ImageExtensions \cup VideoExtensions
                        /\ m.is_video = (m.extension \in VideoExtensions)
                        /\ m.extension \in ImageExtensions => ~m.is_video
                        /\ ~m.seen /\ m.last_shown = Null
            /\ \A m, n \in media' :
                  (m.album_id = n.album_id /\ m.filename = n.filename) => m = n
            /\ \A m, n \in media' : m.id = n.id => m = n
    ]_vars

\* C21 witness: a folder with an image in upper case, a video, a text file, a
\* hidden file named like an extension and a subdirectory named like an image
\* that holds an image has been processed on an empty store: two rows exist.
C21_Witness ==
    /\ last.op = "_process_album_folder"
    /\ Range_(AlbumFolder.files) = {F_d, F_c, F_n, <<".", "j", "p", "g">>}
    /\ AlbumFolder.dirs # <<>>
    /\ Cardinality(albums) = 1
    /\ {m.filename : m \in media} = {F_d, F_c}
    /\ \E m \in media : m.is_video /\ m.extension = <<".", "m", "p", "4">>
    /\ \E m \in media : ~m.is_video /\ m.extension = <<".", "p", "n", "g">>

\* C21 witness: a folder whose album and a.jpg are in the store has been
\* processed: the shown a.jpg row is as it was and d.PNG has a new row.
C21_RescanWitness ==
    /\ last.op = "_process_album_folder"
    /\ Range_(AlbumFolder.files) = {F_a, F_d}
    /\ Cardinality(albums) = 2
    /\ \E m \in media : m.album_id = 1 /\ m.filename = F_a /\ m.seen
    /\ \E m \in media : m.album_id = 1 /\ m.filename = F_d /\ ~m.seen

\* The call of add_album or add_media_file that job t is in fails in this
\* step, at its first statement, the SELECT (at = "select"), or later.
CallFails(t, at) ==
    /\ threads[t].pc = at
    /\ \/ threads'[t].faults > threads[t].faults
       \/ at = "write" /\ threads'[t] # threads[t] /\ threads'[t].pc # "commit"

\* C22: when a storage error occurs inside add_album or add_media_file, the
\* call returns -1 and the albums and media_files tables are the same as before
\* the call. (A call that fails at its SELECT is one step: the tables before the
\* step are the tables before the call.)
C22_FailedCallLeavesTables ==
    [][\A t \in Threads :
          CallFails(t, "select") => albums' = albums /\ media' = media]_vars

\* The same when no other job has a write pending on the connection: whatever
\* statement fails, the tables are those of the last commit, which are the
\* tables before the call. (Not so when another job has: see C22.)
C22_FailedCallAloneLeavesTables ==
    [][\A t \in Threads :
          ((CallFails(t, "select") \/ CallFails(t, "write") \/ CallFails(t, "commit"))
            /\ \A u \in Threads \ {t} : threads[u].pc # "commit")
              => /\ txn # <<>> => albums' = txn[1].albums /\ media' = txn[1].media
                 /\ txn = <<>> => albums' = albums /\ media' = media
                 /\ threads[t].pc # "commit" => albums' = albums /\ media' = media]_vars

\* C23: every operation of the store, in every reachable state of the store,
\* also after close() has been called while a scan or an update is running,
\* turns a storage fault into its default (0, None, an empty list, nothing done
\* or -1) and never raises to its caller.
C23_StoreNeverRaises ==
    \A i \in DOMAIN last.calls : last.calls[i].fn # "raise"

\* The same as long as close() has not been called: a fault ends the call with
\* its default.
C23_OpenStoreNeverRaises ==
    conn = "open" => \A i \in DOMAIN last.calls : last.calls[i].fn # "raise"

C24_UnseenWitness ==
    /\ last.op = "handle_set_album_filter"
    /\ Len(last.calls) = 1
    /\ last.calls[1].fn = "get_random_unseen_media"
    /\ \E m \in media : m.album_id = album_filter /\ m.id = data.selected_media
    /\ \E m \in media : m.album_id = album_filter /\ m.seen /\ m.id # data.selected_media

C25_NameWitness ==
    /\ last.op = "handle_set_album_filter"
    /\ albums # {}
    /\ \A a \in albums : a.name # last.result[2]
    /\ album_filter # Null

\* C26: however the statements of a scan (add_album, add_media_file) and the
\* store calls of an update (pick, reset, mark) interleave: a statement of the
\* scan changes neither seen nor last_shown of a row that exists, no two album
\* rows have one path and no two media rows one (album, file name) or one id,
\* and in every state between the statements seen holds exactly when last_shown
\* is set.
C26_ScanAndUpdateInterleave ==
    /\ [](/\ \A a, b \in albums : (a.path = b.path \/ a.id = b.id) => a = b
          /\ \A m, n \in media :
                ((m.album_id = n.album_id /\ m.filename = n.filename) \/ m.id = n.id)
                    => m = n
          /\ \A m \in media : m.seen <=> m.last_shown # Null)
    /\ [][threads'[1] # threads[1] =>
            \A m \in media : \E n \in media' :
                n.id = m.id /\ n.seen = m.seen /\ n.last_shown = m.last_shown]_vars

\* What holds of it: the uniqueness of rows and seen <=> last_shown, in every
\* state between the statements; and a statement of the scan that does not
\* fail changes neither seen nor last_shown of a row that exists.
C26_RowsUniqueAndSeenIffShown ==
    /\ [](/\ \A a, b \in albums : (a.path = b.path \/ a.id = b.id) => a = b
          /\ \A m, n \in media :
                ((m.album_id = n.album_id /\ m.filename = n.filename) \/ m.id = n.id)
                    => m = n
          /\ \A m \in media : m.seen <=> m.last_shown # Null)
    /\ [][(threads'[1] # threads[1] /\ threads'[1].faults = threads[1].faults) =>
            \A m \in media : \E n \in media' :
                n.id = m.id /\ n.seen = m.seen /\ n.last_shown = m.last_shown]_vars

\* C26 witness: the scan has an INSERT of a media file pending while the update
\* is about to mark the item it picked, and another item has been shown before.
C26_Witness ==
    /\ threads[1].pc = "commit" /\ threads[1].entry > 0
    /\ threads[2].pc = "mark"
    /\ \E m \in media : m.seen /\ m.id # threads[2].found

\* C26 witness: right after a reset by the update, the scan is about to look
\* up a media file whose row exists.
C26_ResetWitness ==
    /\ threads[1].pc = "select" /\ threads[1].entry > 0
    /\ last.op = "reset_seen_status"
    /\ \E m \in media : m.album_id = threads[1].album_id
                        /\ m.filename = EntryOf(threads[1]).filename

\* C27: every album row a scan creates or updates has year and month both NULL
\* or both set, and a month that is set lies in 1..12, whatever folder name the
\* album pattern accepts.
C27_AlbumRowsHaveCalendarMonth ==
    \A a \in albums :
        /\ a.year = Null <=> a.month = Null
        /\ a.month # Null => a.month \in 1..12

\* What holds of the rows: year and month are both NULL or both set, and a
\* month that is set is the number its two digits write, 0..99.
C27_AlbumRowsYearWithMonth ==
    \A a \in albums :
        /\ a.year = Null <=> a.month = Null
        /\ a.month # Null => a.month \in 0..99

\* The album folders of the roots that exist, in the order of the paths.
PresentPlan ==
    [v \in DOMAIN FileSystems |->
        ScanFolders(FileSystems[v], SelectSeq(MediaPaths, LAMBDA q : q # <<"/", "q">>))]

\* C28: a fault on one root, album or file does not abort scan(). The root
\* whose directory does not exist contributes nothing, wherever it stands among
\* the paths; an album whose add_album returned -1 is not counted; a file whose
\* add_media_file returned -1 is not counted; every other album folder of every
\* root has its row and the rows of its other media files after the scan, and
\* every other album and file is counted as a scan without the failure counts
\* it (an album folder counting when it holds a media file).
C28_ScanSurvivesFailures ==
    [][(last'.op = "scan" /\ last'.calls # <<>>) =>
        LET failing == last'.calls[1].failing
            folders == PresentPlan[fs]
            added == {i \in 1..Len(folders) : <<i, 0>> \notin failing}
            files == {c \in added \X (1..2) :
                         c[2] <= Len(folders[c[1]].entries) /\ c \notin failing}
        IN  /\ last'.result[1] = Cardinality({i \in added : folders[i].entries # <<>>})
            /\ last'.result[2] = Cardinality(files)
            /\ \A i \in added : \E a \in albums' : a.path = folders[i].path
            /\ \A c \in files : \E a \in albums', m \in media' :
                    /\ a.path = folders[c[1]].path
                    /\ m.album_id = a.id
                    /\ m.filename = folders[c[1]].entries[c[2]].filename]_vars

\* What holds of it: the scan goes on after every failure, the rows of all
\* other albums and files are there, the media count is that of the files
\* added, and the album count is that of the albums of which a file was added:
\* an album all of whose files failed is not counted.
C28_FailuresAreLeftOut ==
    [][(last'.op = "scan" /\ last'.calls # <<>>) =>
        LET failing == last'.calls[1].failing
            folders == PresentPlan[fs]
            added == {i \in 1..Len(folders) : <<i, 0>> \notin failing}
            files == {c \in added \X (1..2) :
                         c[2] <= Len(folders[c[1]].entries) /\ c \notin failing}
        IN  /\ last'.result[1] = Cardinality({c[1] : c \in files})
            /\ last'.result[2] = Cardinality(files)
            /\ \A i \in added : \E a \in albums' : a.path = folders[i].path
            /\ \A c \in files : \E a \in albums', m \in media' :
                    /\ a.path = folders[c[1]].path
                    /\ m.album_id = a.id
                    /\ m.filename = folders[c[1]].entries[c[2]].filename]_vars

\* C28 witness: a scan whose first path is the directory that does not exist,
\* in which add_album failed for one folder and add_media_file for a file of
\* another, has gone on and counted an album after both.
C28_Witness ==
    /\ last.op = "scan" /\ last.calls # <<>>
    /\ last.calls[1].paths[1] = <<"/", "q">>
    /\ \E c, d \in last.calls[1].failing :
          c[2] = 0 /\ d[2] > 0 /\ c[1] # d[1]
          /\ \E a \in albums :
                /\ a.path = PresentPlan[fs][IF c[1] > d[1] THEN c[1] + 1
                                            ELSE d[1] + 1].path
                /\ \E m \in media : m.album_id = a.id
    /\ last.result[1] > 0

\* C29: when the store holds no media item in the scope the reset goes by (the
\* filtered album, else the albums dated within the range, else everything), an
\* update makes one reset, which changes nothing, gets nothing from the second
\* query either, publishes selected_media = None, and leaves the current item
\* and all rows as they are.
C29_EmptyScopeUpdate ==
    [][(/\ last'.op = "_async_update_data"
        /\ ScopeIds(albums, media, album_filter, time_range) = {})
          => /\ Len(last'.calls) = 3
             /\ last'.calls[2] = ResetCall(album_filter,
                                           IF album_filter = Null THEN time_range
                                           ELSE NoRange)
             /\ data'.selected_media = Null
             /\ current_media_id' = current_media_id
             /\ media' = media
             /\ albums' = albums]_vars

\* C29 witness: an update under the filter of an album without media, while
\* the store holds media of other albums and an item is current, has published
\* no selection after its reset.
C29_Witness ==
    /\ last.op = "_async_update_data"
    /\ Len(last.calls) = 3
    /\ album_filter # Null
    /\ media # {}
    /\ current_media_id # Null
    /\ data.selected_media = Null

\* C29 witness: an update on the empty store.
C29_EmptyStoreWitness ==
    /\ last.op = "_async_update_data"
    /\ Len(last.calls) = 3
    /\ media = {} /\ albums = {}
    /\ data = [selected_media |-> Null, count_total |-> 0, count_unseen |-> 0]

\* C30: clear_album_filter, set_time_range and clear_time_range change only
\* the filter they are about: no album row, no media row, not the current item,
\* not the other filter; and clear_time_range after set_time_range leaves the
\* range with its four values None.
C30_FilterMethodsChangeFiltersOnly ==
    [][/\ last'.op \in {"clear_album_filter", "set_time_range", "clear_time_range"}
            => /\ albums' = albums /\ media' = media
               /\ current_media_id' = current_media_id
               /\ data' = data /\ clock' = clock
       /\ last'.op = "clear_album_filter"
            => album_filter' = Null /\ time_range' = time_range
       /\ last'.op = "set_time_range"
            => time_range' = last'.result[1] /\ album_filter' = album_filter
       /\ last'.op = "clear_time_range"
            => /\ time_range' = [start_year |-> Null, start_month |-> Null,
                                 end_year |-> Null, end_month |-> Null]
               /\ album_filter' = album_filter]_vars

\* C30 witness: clear_time_range has replaced a range that was set, with a
\* seen item current, an unseen item in the store and an album filter set.
C30_Witness ==
    /\ last.op = "clear_time_range"
    /\ AllSet(last.result[1])
    /\ time_range = NoRange
    /\ album_filter # Null
    /\ \E m \in media : m.seen /\ m.id = current_media_id
    /\ \E m \in media : ~m.seen

\* C30 witness: clear_album_filter has cleared a filter that was set, with an
\* item current and a date range set.
C30_ClearAlbumWitness ==
    /\ last.op = "clear_album_filter"
    /\ album_filter = Null
    /\ AllSet(time_range)
    /\ current_media_id # Null
    /\ data.selected_media # Null

\* C31: mark_media_as_seen(id) sets seen and a non-null last_shown on the row
\* with that id, leaves every other media row and every album row as it was,
\* and changes nothing for an id that matches no row.
C31_MarkTouchesOneRow ==
    [][last'.op = "mark_media_as_seen" /\ clock' # clock
        => LET id == last'.result[1]
           IN  /\ albums' = albums
               /\ {m.id : m \in media'} = {m.id : m \in media}
               /\ \A m \in media : \E n \in media' :
                      /\ n.id = m.id
                      /\ IF m.id = id
                         THEN /\ n.seen /\ n.last_shown # Null
                              /\ n = [m EXCEPT !.seen = n.seen,
                                               !.last_shown = n.last_shown]
                         ELSE n = m
               /\ (id \notin {m.id : m \in media} => media' = media)]_vars

\* C31 witness: a call has marked one row of a store that holds another,
\* unseen row.
C31_Witness ==
    /\ last.op = "mark_media_as_seen"
    /\ \E m \in media : m.id = last.result[1] /\ m.seen /\ m.last_shown = clock
    /\ \E m \in media : m.id # last.result[1] /\ ~m.seen

\* C31, the unknown id: a call with an id no row has, on a store with rows.
C31_UnknownIdWitness ==
    /\ last.op = "mark_media_as_seen"
    /\ media # {} /\ albums # {}
    /\ last.result[1] \notin {m.id : m \in media}

\* C32: opening the store on an existing database appends a schema_version row
\* exactly when the latest row's version differs from DB_VERSION; afterwards
\* the latest row's version is DB_VERSION, the earlier rows are as they were,
\* and the album and media rows are unchanged.
C32_OpenAppendsOnMismatch ==
    [][conn = "closed" /\ conn' = "open"
        => LET n == Len(schema_version)
           IN  /\ Len(schema_version') = n + 1 <=> schema_version[n] # DB_VERSION
               /\ Len(schema_version') \in {n, n + 1}
               /\ schema_version'[Len(schema_version')] = DB_VERSION
               /\ SubSeq(schema_version', 1, n) = schema_version
               /\ albums' = albums /\ media' = media]_vars

\* C32 witness: the store was opened on a scanned database whose latest row had
\* another release's version, and a row was appended.
C32_Witness ==
    /\ last.op = "_setup_database"
    /\ albums # {} /\ media # {}
    /\ last.result[1][Len(last.result[1])] # DB_VERSION
    /\ schema_version = Append(last.result[1], DB_VERSION)

\* C32, no mismatch: the store was opened on a database whose latest row has
\* DB_VERSION below a row of another version, and the log is as it was.
C32_SameVersionWitness ==
    /\ last.op = "_setup_database"
    /\ albums # {}
    /\ \E i \in DOMAIN schema_version : schema_version[i] # DB_VERSION
    /\ schema_version = last.result[1]

\* C33: every item _get_next_media returns, the one found after a reset
\* included, satisfies all the active filters together: it is in the filtered
\* album when the album filter is set and in an album dated within the range
\* when the date range is set.
C33_ReturnedItemSatisfiesAllFilters ==
    (Updated /\ data.selected_media # Null)
        => \E m \in media : m.id = data.selected_media /\ InActiveScope(m)

\* C33, what the code keeps: the returned item satisfies the album filter when
\* one is set, and the date range when only the date range is set; an item
\* found by the first query satisfies both.
C33_AlbumFilterElseRange ==
    (Updated /\ data.selected_media # Null)
        => \E m \in media :
              /\ m.id = data.selected_media
              /\ album_filter # Null => m.album_id = album_filter
              /\ (album_filter = Null \/ Resets(last.calls) = {})
                    => (time_range # NoRange
                          => DatedWithin(AlbumOf(albums, m), time_range))

\* C33 witness: with both filters set, the album exhausted and dated within the
\* range, the selection reset the album and returned an item that satisfies
\* both filters.
C33_Witness ==
    /\ last.op = "_async_update_data"
    /\ album_filter # Null /\ time_range # NoRange
    /\ Resets(last.calls) # {}
    /\ \E m \in media : m.id = data.selected_media /\ InActiveScope(m)

\* C33, the retry that drops the range: with both filters set and the album
\* dated outside the range, the selection returned an item of the album.
C33_OutsideRangeWitness ==
    /\ Updated
    /\ album_filter # Null /\ time_range # NoRange
    /\ \E m \in media : /\ m.id = data.selected_media
                        /\ m.album_id = album_filter
                        /\ ~DatedWithin(AlbumOf(albums, m), time_range)

\* C34: when two update ticks overlap, so that the second tick's pick runs
\* before the first tick's mark_media_as_seen, the two ticks never return the
\* same media item: the pick of one tick, made while the other has picked an
\* item and not yet marked it, returns another item (where the store holds
\* another unseen item to return).
C34_OverlappingTicksDiffer ==
    [][\A t \in Threads : \A o \in Threads \ {t} :
          (/\ threads[o].pc = "mark"
           /\ Cardinality({m \in media : ~m.seen}) >= 2
           /\ threads[t].pc \in {"pick", "retry"}
           /\ threads'[t] # threads[t]
           /\ last'.result # <<Null>>)
              => last'.result # <<threads[o].found>>]_vars

\* C34: both ticks have picked the same item; the second one published it
\* while the first is still about to mark it.
C34_SameItemWitness ==
    \E o \in Threads :
        /\ threads[o].pc = "mark"
        /\ data.selected_media = threads[o].found
        /\ \E m \in media : m.id = threads[o].found /\ ~m.seen
        /\ \E m \in media : m.id # threads[o].found /\ ~m.seen

\* C35: each show_previous_image call that adopts an item moves strictly
\* backward in the display history: the adopted item's last_shown is earlier
\* than the last_shown of the item that was current before the call.
C35_PreviousMovesBackward ==
    [][(last'.op = "handle_previous_image" /\ current_media_id' # current_media_id)
          => \E cur \in media, adopted \in media :
                /\ cur.id = current_media_id
                /\ adopted.id = current_media_id'
                /\ cur.last_shown # Null /\ adopted.last_shown # Null
                /\ adopted.last_shown < cur.last_shown]_vars

\* C35, the first step back: a show_previous_image call that directly follows
\* an update which marked the current item adopts an item shown earlier.
C35_FirstCallMovesBackward ==
    [][(/\ last'.op = "handle_previous_image"
        /\ current_media_id' # current_media_id
        /\ Updated /\ current_media_id \in marked
        /\ \E m \in media : m.id = current_media_id /\ m.last_shown = clock)
          => \E cur \in media, adopted \in media :
                /\ cur.id = current_media_id
                /\ adopted.id = current_media_id'
                /\ adopted.last_shown # Null
                /\ adopted.last_shown < cur.last_shown]_vars

\* C35: two show_previous_image calls in a row, the second of which adopted
\* the item shown last of all.
C35_ForwardWitness ==
    /\ last.op = "handle_previous_image"
    /\ last.result # <<Null>>
    /\ \E m \in media : /\ m.id = current_media_id
                        /\ m.last_shown = clock
    /\ Cardinality({m \in media : m.seen}) >= 2

\* The media rows whose album has neither year nor month.
Undated == {m \in media : \E a \in albums :
               a.id = m.album_id /\ a.year = Null /\ a.month = Null}

\* C36: with a complete date range supplied, a media item whose album has null
\* year and month is never returned by get_random_unseen_media or
\* get_previously_shown_media, and never modified by a date-range-scoped
\* reset_seen_status.
C36_UndatedOutsideEveryRange ==
    /\ []((last.op \in {"get_random_unseen_media", "get_previously_shown_media"}
            /\ AllSet(time_range))
             => \A m \in Undated : last.result # <<m.id>>)
    /\ [][(last'.op = "reset_seen_status" /\ AllSet(time_range))
             => \A m \in Undated : m \in media']_vars

\* C36 witness: the album is undated; the range-scoped reset ran and the seen
\* row is still seen with its timestamp, beside an unseen row.
C36_Witness ==
    /\ last.op = "reset_seen_status"
    /\ AllSet(time_range)
    /\ \E m \in Undated : m.seen /\ m.last_shown # Null
    /\ \E m \in Undated : ~m.seen

\* C36, the queries: each of them ran on the undated album, which holds an
\* unseen and a shown row, and returned None.
C36_UnseenWitness ==
    /\ last.op = "get_random_unseen_media" /\ last.result = <<Null>>
    /\ \E m \in Undated : ~m.seen
C36_PreviousWitness ==
    /\ last.op = "get_previously_shown_media" /\ last.result = <<Null>>
    /\ \E m \in Undated : m.last_shown # Null

\* C37: after any sequence of scans, ticks, resets and clear_database, every
\* media_files row's album_id refers to an existing albums row: once the
\* operations under way have finished and nothing is pending on the
\* connection, the store holds no orphan media row.
C37_NoOrphanMedia ==
    (txn = <<>> /\ \A t \in Threads : threads[t].pc = "idle")
        => \A m \in media : \E a \in albums : a.id = m.album_id

\* C37, one operation at a time: scans, ticks, filter changes, resets and
\* clear_database leave no orphan media row, and a clear_database that fails
\* leaves both tables as they were.
C37_NoOrphanSequentially ==
    /\ [](\A m \in media : \E a \in albums : a.id = m.album_id)
    /\ [][last'.op = "clear_database"
            => IF last'.result = <<TRUE>> THEN albums' = {} /\ media' = {}
               ELSE albums' = albums /\ media' = media]_vars

\* C37: the store was cleared while the coordinator showed an item, scanned
\* again and updated: its rows are back, each with its album.
C37_Witness ==
    /\ last.op = "_async_update_data"
    /\ media # {} /\ \E m \in media : m.seen
    /\ clock >= 3

\* C37: two scans that overlapped have both finished, and a media row is left
\* whose album row does not exist.
C37_OrphanWitness ==
    /\ txn = <<>> /\ \A t \in Threads : threads[t].pc = "idle" /\ threads[t].runs > 0
    /\ \E m \in media : \A a \in albums : a.id # m.album_id

\* C38: the count_unseen a tick publishes equals the number of unseen rows
\* (under the album filter) in the store when the tick completes, that is,
\* after the tick's own reset and mark.
C38_PublishedCountIsCurrent ==
    last.op = "_async_update_data"
        => data.count_unseen = GetUnseenCount(media, album_filter)

\* C38, what the code publishes: the number of unseen rows under the album
\* filter when the tick began, before its reset and its mark.
C38_PublishedCountIsFromBefore ==
    [][last'.op = "_async_update_data"
          => /\ data'.count_unseen = GetUnseenCount(media, album_filter)
             /\ data'.count_total = GetMediaCount(media)]_vars

\* C38: a tick picked and marked an item; the count it published is one more
\* than the number of unseen rows it left.
C38_StaleCountWitness ==
    /\ last.op = "_async_update_data"
    /\ Resets(last.calls) = {}
    /\ current_media_id = data.selected_media
    /\ \E m \in media : m.id = current_media_id /\ m.last_shown = clock
    /\ data.count_unseen = GetUnseenCount(media, album_filter) + 1

====
